---- MODULE Spec2Model ----
(***************************************************************************)
(* CatMOD: the per-read alignment encoder (CatMOD/region.py,               *)
(* get_read_alignment), the insertion helpers (insert_requality,           *)
(* insert_seq_index), the region driver around one fetched read            *)
(* (get_region_alignment) and the window algebra (Region.resize).          *)
(*                                                                         *)
(* Representation of values:                                               *)
(*  - Python None is the integer -1 (no position of the model is           *)
(*    negative); Truthy is Python's truth test on "int or None".           *)
(*  - an np.int64 entry of the alignment matrix is a base-4 numeral: the   *)
(*    sequence of its base-4 digits, most significant first, without       *)
(*    leading zeros (0 is << >>, 1 is <<1>>).  2^63-1 does not fit a TLC   *)
(*    integer; as a numeral it is 1 followed by thirty-one 3s.             *)
(*  - a quality value x (a Phred number, possibly not an integer after a   *)
(*    merge) is the exact rational 10^(-x/10) = <<num, den>> in lowest     *)
(*    terms, its error probability; the float 0.0 is <<1, 1>>.  Floating   *)
(*    point rounding (float32 storage) is not modelled.                    *)
(***************************************************************************)
EXTENDS Integers, Sequences, FiniteSets, TLC

VARIABLES
    region,            \* encoder argument: [start, end, strand]
    ali_window,        \* encoder argument
    read,              \* the fetched read: [is_reverse, reference_start, script]
    pc,                \* position in get_region_alignment / get_read_alignment
    n_pairs,           \* aligned pairs yielded so far by read.get_aligned_pairs()
    read_pos,          \* read position of the next read-consuming pair
    ref_pos,           \* reference position of the next reference-consuming pair
    cur,               \* the aligned pair of the last loop iteration, with the
                       \* read's base and quality at its read position when
                       \* the pair is handled in range
    in_range,
    insert_seq_list,
    insert_qual_list,
    range_one_hot,
    range_quality,
    row_idx,           \* raw row indices the call has used in subscript writes
    raised,            \* exception raised by the call ("" if none)
    result,            \* return value of get_read_alignment
    reads_alignment,   \* driver's list (region.py:140)
    reads_quality,     \* driver's list (region.py:140)
    saved_alignment,   \* <key>.reads_alignment.npy
    saved_quality,     \* <key>.reads_quality.npy
    done_marker,       \* <key>.ali.done exists
    overwrite,         \* driver argument
    sam_query_reader,  \* the AlignmentFile handle: "none", "open", "closed"
    source,            \* the reads the fetch yields, in the source's order
    results,           \* what get_read_alignment returned for each read
                       \* fetched so far, in order
    disp,              \* ExtractFeatures: the dispatch of the region drivers
    fn,                \* a call of insert_seq_index or insert_requality
    rz                 \* Region.resize: the Region's start, end, offset, and of
                       \* the last resize call its arguments, the exception
                       \* it raised and the nested calls it made

encVars == <<region, ali_window, read, pc, n_pairs, read_pos, ref_pos, cur,
             in_range, insert_seq_list, insert_qual_list, range_one_hot,
             range_quality, row_idx, raised, result>>
drvVars == <<reads_alignment, reads_quality, saved_alignment, saved_quality,
             done_marker, overwrite, sam_query_reader, source, results>>
vars == <<encVars, drvVars, rz, disp, fn>>

(***************************************************************************)
(* Bounds of the model.                                                    *)
(***************************************************************************)
MaxPairs == 4          \* aligned pairs of a freely generated read
MaxWindow == 3         \* widest window of a freely generated region

None == -1
NoError == ""
NoBase == ""

Truthy(x) == x # None /\ x # 0

(***************************************************************************)
(* Base-4 numerals for np.int64 values.                                    *)
(***************************************************************************)
Zero == << >>
One == <<1>>

INT64_MAX == [i \in 1..32 |-> IF i = 1 THEN 1 ELSE 3]

RECURSIVE StripLeadingZeros(_)
StripLeadingZeros(ds) ==
    IF ds # << >> /\ Head(ds) = 0 THEN StripLeadingZeros(Tail(ds)) ELSE ds

NumLess(a, b) ==
    \/ Len(a) < Len(b)
    \/ /\ Len(a) = Len(b)
       /\ \E i \in 1..Len(a) :
            /\ a[i] < b[i]
            /\ \A j \in 1..(i - 1) : a[j] = b[j]

NumMin(a, b) == IF NumLess(b, a) THEN b ELSE a

_BASE_INTS == ("A" :> 0) @@ ("C" :> 1) @@ ("G" :> 2) @@ ("T" :> 3)
              @@ ("-" :> 4) @@ ("^" :> 5)

_BASE_INDEX == ("A" :> "0") @@ ("C" :> "1") @@ ("G" :> "2") @@ ("T" :> "3")

DigitValue == ("0" :> 0) @@ ("1" :> 1) @@ ("2" :> 2) @@ ("3" :> 3)

\* int(s, 4) for a string s of base-4 digit characters
IntBase4(s) == StripLeadingZeros([i \in 1..Len(s) |-> DigitValue[s[i]]])

\* the inserted run has a base without a digit: the lookup raises KeyError
CanPack(insert_seq) ==
    \A i \in 1..Len(insert_seq) : insert_seq[i] \in DOMAIN _BASE_INDEX

\* region.py:240-242 without the min
insert_seq_index_Unbounded(insert_seq) ==
    IntBase4(<<"1">> \o [i \in 1..Len(insert_seq) |->
                            _BASE_INDEX[insert_seq[i]]])

\* region.py:240-242 without the leading '1'
insert_seq_index_NoPrefix(insert_seq) ==
    NumMin(INT64_MAX,
           IntBase4([i \in 1..Len(insert_seq) |->
                        _BASE_INDEX[insert_seq[i]]]))

\* region.py:239-242
insert_seq_index(insert_seq) ==
    NumMin(INT64_MAX,
           IntBase4(<<"1">> \o [i \in 1..Len(insert_seq) |->
                                   _BASE_INDEX[insert_seq[i]]]))

(***************************************************************************)
(* Exact rationals for qualities.                                          *)
(***************************************************************************)
RECURSIVE GCD(_, _)
GCD(a, b) == IF b = 0 THEN a ELSE GCD(b, a % b)

Rat(n, d) == LET g == GCD(n, d) IN <<n \div g, d \div g>>

RECURSIVE Pow10(_)
Pow10(k) == IF k = 0 THEN 1 ELSE 10 * Pow10(k - 1)

\* the quality value q of a read base (an integer multiple of 10), as its
\* error probability 10 ** (-q / 10)
FromPhred(q) == Rat(1, Pow10(q \div 10))

QZero == <<1, 1>>

RatMul(a, b) == Rat(a[1] * b[1], a[2] * b[2])
RatOneMinus(a) == Rat(a[2] - a[1], a[2])

RECURSIVE ProductOfComplements(_)
ProductOfComplements(quals) ==
    IF quals = << >> THEN <<1, 1>>
    ELSE RatMul(ProductOfComplements(SubSeq(quals, 1, Len(quals) - 1)),
                RatOneMinus(quals[Len(quals)]))

\* region.py:233-236 with iq started at the complement of a quality of 10
insert_requality_WithPrior(insert_qual) ==
    RatOneMinus(RatMul(RatOneMinus(FromPhred(10)),
                       ProductOfComplements(insert_qual)))

\* region.py:233-236 with -10 * log10(iq) returned
insert_requality_OfProduct(insert_qual) ==
    ProductOfComplements(insert_qual)

\* region.py:232-236: the value x returned has 10^(-x/10) = 1 - iq
insert_requality(insert_qual) ==
    RatOneMinus(ProductOfComplements(insert_qual))

(***************************************************************************)
(* numpy subscript writes on the (ali_window, 6) matrix and the            *)
(* (ali_window,) vector: an index i of -n..n-1 is accepted (a negative one *)
(* counts from the end), any other raises IndexError.                      *)
(***************************************************************************)
NRows(a) == Cardinality(DOMAIN a)
InBounds(i, n) == -n <= i /\ i < n
NpIndex(i, n) == IF i < 0 THEN i + n ELSE i

zeros2(w) == [r \in 0..(w - 1) |-> [c \in 0..5 |-> Zero]]
zeros1(w) == [r \in 0..(w - 1) |-> QZero]

Raise(st, e) == IF st.raised # NoError THEN st ELSE [st EXCEPT !.raised = e]

\* range_one_hot[i, c] = v
SetOneHot(st, i, c, v) ==
    LET n == NRows(st.range_one_hot) IN
    IF st.raised # NoError THEN st
    ELSE IF ~InBounds(i, n)
         THEN [st EXCEPT !.raised = "IndexError", !.row_idx = @ \cup {i}]
         ELSE [st EXCEPT !.range_one_hot[NpIndex(i, n)][c] = v,
                         !.row_idx = @ \cup {i}]

\* range_quality[i] = v
SetQuality(st, i, v) ==
    LET n == NRows(st.range_quality) IN
    IF st.raised # NoError THEN st
    ELSE IF ~InBounds(i, n)
         THEN [st EXCEPT !.raised = "IndexError", !.row_idx = @ \cup {i}]
         ELSE [st EXCEPT !.range_quality[NpIndex(i, n)] = v,
                         !.row_idx = @ \cup {i}]

ClearRun(st) ==
    IF st.raised # NoError THEN st
    ELSE [st EXCEPT !.insert_seq_list = << >>, !.insert_qual_list = << >>]

(***************************************************************************)
(* The branches of one loop iteration of get_read_alignment.  st is the    *)
(* record of the call's locals; rg the region; ref_index, base and q the   *)
(* pair's reference position and query_sequence[read_index],               *)
(* query_qualities[read_index].                                            *)
(***************************************************************************)
\* region.py:194-198
MatchPlain(st, rg, ref_index, base, q) ==
    IF base \notin DOMAIN _BASE_INTS THEN Raise(st, "KeyError")
    ELSE SetQuality(SetOneHot(st, ref_index - rg.start, _BASE_INTS[base], One),
                    ref_index - rg.start, FromPhred(q))

\* FoldForward without the flanking quality in the merged list
FoldForward_NoFlank(st, rg, ref_index) ==
    LET row == ref_index - rg.start - 1
    IN  IF ~CanPack(st.insert_seq_list) THEN Raise(st, "KeyError")
        ELSE LET s1 == SetOneHot(st, row, 5,
                                 insert_seq_index(st.insert_seq_list))
             IN  IF s1.raised # NoError THEN s1
                 ELSE SetQuality(s1, row,
                                 insert_requality(st.insert_qual_list))

\* FoldForward writing the row of the current reference position
FoldForward_SameRow(st, rg, ref_index) ==
    LET row == ref_index - rg.start
        n == NRows(st.range_quality)
    IN  IF ~CanPack(st.insert_seq_list) THEN Raise(st, "KeyError")
        ELSE LET s1 == SetOneHot(st, row, 5,
                                 insert_seq_index(st.insert_seq_list))
             IN  IF s1.raised # NoError THEN s1
                 ELSE SetQuality(s1, row,
                        insert_requality(
                            <<s1.range_quality[NpIndex(row, n)]>>
                            \o st.insert_qual_list))

\* region.py:176-181 and 212-216
FoldForward(st, rg, ref_index) ==
    LET row == ref_index - rg.start - 1
        n == NRows(st.range_quality)
    IN  IF ~CanPack(st.insert_seq_list) THEN Raise(st, "KeyError")
        ELSE LET s1 == SetOneHot(st, row, 5,
                                 insert_seq_index(st.insert_seq_list))
             IN  IF s1.raised # NoError THEN s1
                 ELSE SetQuality(s1, row,
                        insert_requality(
                            <<s1.range_quality[NpIndex(row, n)]>>
                            \o st.insert_qual_list))

\* MatchFoldReverse without the matched base's quality in the merged list
MatchFoldReverse_NoBaseQuality(st, rg, ref_index, base, q) ==
    LET row == ref_index - rg.start IN
    IF ~CanPack(st.insert_seq_list) THEN Raise(st, "KeyError")
    ELSE LET s1 == SetOneHot(st, row, 5, insert_seq_index(st.insert_seq_list))
         IN  IF s1.raised # NoError THEN s1
             ELSE IF base \notin DOMAIN _BASE_INTS THEN Raise(s1, "KeyError")
             ELSE SetQuality(SetOneHot(s1, row, _BASE_INTS[base], One), row,
                             insert_requality(st.insert_qual_list))

\* region.py:183-191
MatchFoldReverse(st, rg, ref_index, base, q) ==
    LET row == ref_index - rg.start IN
    IF ~CanPack(st.insert_seq_list) THEN Raise(st, "KeyError")
    ELSE LET s1 == SetOneHot(st, row, 5, insert_seq_index(st.insert_seq_list))
         IN  IF s1.raised # NoError THEN s1
             ELSE IF base \notin DOMAIN _BASE_INTS THEN Raise(s1, "KeyError")
             ELSE SetQuality(SetOneHot(s1, row, _BASE_INTS[base], One), row,
                             insert_requality(st.insert_qual_list
                                              \o <<FromPhred(q)>>))

\* region.py:174-192
MatchFold(st, rg, ref_index, base, q) ==
    ClearRun(IF rg.strand = "+" THEN FoldForward(st, rg, ref_index)
             ELSE MatchFoldReverse(st, rg, ref_index, base, q))

\* region.py:201-207
Insertion(st, base, q) ==
    IF st.insert_seq_list # << >> /\ st.insert_qual_list # << >>
    THEN [st EXCEPT !.insert_seq_list = Append(@, base),
                    !.insert_qual_list = Append(@, FromPhred(q))]
    ELSE [st EXCEPT !.insert_seq_list = <<base>>,
                    !.insert_qual_list = <<FromPhred(q)>>]

\* region.py:218-220
DeletionFoldReverse(st, rg, ref_index) ==
    LET row == ref_index - rg.start IN
    IF ~CanPack(st.insert_seq_list) THEN Raise(st, "KeyError")
    ELSE SetOneHot(SetOneHot(st, row, 5, insert_seq_index(st.insert_seq_list)),
                   row, 4, One)

\* region.py:210-221
DeletionFold(st, rg, ref_index) ==
    ClearRun(IF rg.strand = "+" THEN FoldForward(st, rg, ref_index)
             ELSE DeletionFoldReverse(st, rg, ref_index))

\* region.py:223
DeletionPlain(st, rg, ref_index) == SetOneHot(st, ref_index - rg.start, 4, One)

\* region.py:165-166
EnterRange(st, rg, ref_index) ==
    IF ref_index = rg.start THEN [st EXCEPT !.in_range = TRUE] ELSE st

\* region.py:167-169 with > for >=
Breaks_Late(rg, ref_index) ==
    ref_index # rg.start /\ Truthy(ref_index) /\ ref_index > rg.end

\* region.py:167-169: the loop is left
Breaks(rg, ref_index) ==
    ref_index # rg.start /\ Truthy(ref_index) /\ ref_index >= rg.end

\* region.py:170-171: the pair is handled in range and has a read position,
\* so that query_sequence[read_index] is the base it stands for
HasBase(st, rg, read_index, ref_index) ==
    /\ ~Breaks(rg, ref_index)
    /\ EnterRange(st, rg, ref_index).in_range
    /\ read_index # None

\* region.py:170-223: the body under "if in_range"
InRangeBody(st, rg, read_index, ref_index, base, q) ==
    IF Truthy(read_index)
    THEN IF Truthy(ref_index)
         THEN IF st.insert_seq_list # << >>
              THEN MatchFold(st, rg, ref_index, base, q)
              ELSE MatchPlain(st, rg, ref_index, base, q)
         ELSE Insertion(st, base, q)
    ELSE IF Truthy(ref_index)
         THEN IF st.insert_seq_list # << >>
              THEN DeletionFold(st, rg, ref_index)
              ELSE DeletionPlain(st, rg, ref_index)
         ELSE st

\* region.py:164-223: one iteration that does not leave the loop
ScanPair(st, rg, read_index, ref_index, base, q) ==
    LET s0 == EnterRange(st, rg, ref_index) IN
    IF s0.in_range THEN InRangeBody(s0, rg, read_index, ref_index, base, q)
    ELSE s0

\* ReturnValue without the all-zero test
ReturnValue_Always(one_hot, quality) ==
    [kind |-> "record", alignment |-> one_hot, quality |-> quality]

\* region.py:224-229
ReturnValue(one_hot, quality) ==
    IF \E r \in DOMAIN one_hot : \E c \in 0..5 : one_hot[r][c] # Zero
    THEN [kind |-> "record", alignment |-> one_hot, quality |-> quality]
    ELSE [kind |-> "empty", alignment |-> << >>, quality |-> << >>]

\* region.py:158
read_strand(rd) == IF rd.is_reverse THEN "-" ELSE "+"

\* StrandMismatch that lets every read through
StrandMismatch_Never(rd, rg) == FALSE

\* region.py:159
StrandMismatch(rd, rg) == read_strand(rd) # rg.strand

(***************************************************************************)
(* Inputs.  A read is the external collaborator's object: is_reverse, and  *)
(* an aligned-pair stream that starts at read position 0 and reference     *)
(* position reference_start and advances by alignment operation: M yields  *)
(* (read, ref), I yields (read, None), D yields (None, ref).  A read with  *)
(* an empty script yields any stream of at most MaxPairs pairs, with any   *)
(* bases and qualities; a scripted read yields exactly its script.         *)
(***************************************************************************)
Ops == {"M", "I", "D"}
Bases == {"A", "C", "G", "T", "N"}
Quals == {10, 20}
Strands == {"+", "-"}
RegionStarts == {0, 2}

FreeRegions ==
    {[start |-> s, end |-> s + w, strand |-> sd] :
        s \in RegionStarts, w \in 0..MaxWindow, sd \in Strands}

FreeReads(rg) ==
    {[is_reverse |-> b, reference_start |-> f, script |-> << >>] :
        b \in BOOLEAN,
        f \in {x \in (rg.start - 1)..(rg.start + 1) : x >= 0}}

\* the end-to-end scenario: region chr1_+_100-110, a forward read matching
\* every position, one inserted base of quality 30 between 104 and 105
E2ERegion == [start |-> 100, end |-> 110, strand |-> "+"]

E2EMatch(i, fq) ==
    [op |-> "M", base |-> <<"A", "C", "G", "T">>[(i % 4) + 1], qual |-> fq]

E2EScript(before, after, ins_base, fq) ==
    [i \in 1..before |-> E2EMatch(i, fq)]
    \o <<[op |-> "I", base |-> ins_base, qual |-> 30]>>
    \o [i \in 1..after |-> E2EMatch(before + i, fq)]

E2EReads ==
    {[is_reverse |-> FALSE, reference_start |-> f,
      script |-> E2EScript(105 - f, after, b, fq)] :
        f \in {98, 99, 100}, after \in {5, 6},
        b \in {"A", "C", "G", "T"}, fq \in Quals}

Inputs ==
    UNION {{[region |-> rg, read |-> rd] : rd \in FreeReads(rg)} :
              rg \in FreeRegions}
    \cup {[region |-> E2ERegion, read |-> rd] : rd \in E2EReads}

Scripted == read.script # << >>

NoPair == [read_index |-> None, ref_index |-> None, base |-> NoBase,
           qual |-> None]
NoResult == [kind |-> "none", alignment |-> << >>, quality |-> << >>]
\* an output file: whether it exists, the rows of the array it holds, and
\* how often this run has written it
NoFile == [exists |-> FALSE, rows |-> << >>, writes |-> 0]
\* the file an earlier run over a region without qualifying reads left
OldFile == [exists |-> TRUE, rows |-> << >>, writes |-> 0]
NoArgs == [chrom |-> "", start |-> 0, end |-> 0, strand |-> "", info |-> "",
           offset |-> 0]
NoRead == [is_reverse |-> FALSE, reference_start |-> 0, script |-> << >>]
DispIdle == [phase |-> "idle"]
FnIdle == [name |-> "none"]
RzIdle == [made |-> FALSE, chrom |-> "", start |-> 0, end |-> 0,
           strand |-> "", info |-> "", offset |-> 0, args |-> NoArgs,
           window |-> None, limit |-> None, raised |-> NoError, depth |-> 0,
           branch |-> "none", prev |-> "none",
           from |-> [start |-> 0, end |-> 0, offset |-> 0]]

Locals ==
    [in_range |-> in_range, insert_seq_list |-> insert_seq_list,
     insert_qual_list |-> insert_qual_list, range_one_hot |-> range_one_hot,
     range_quality |-> range_quality, row_idx |-> row_idx, raised |-> raised]

Init ==
    /\ \E inp \in Inputs :
         /\ region = inp.region
         /\ source \in {<< >>, <<inp.read>>}
         /\ ali_window = inp.region.end - inp.region.start
    /\ read = (IF source = << >> THEN NoRead ELSE source[1])
    /\ ref_pos = read.reference_start
    /\ results = << >>
    /\ disp = DispIdle
    /\ fn = FnIdle
    /\ pc = "start"
    /\ n_pairs = 0
    /\ read_pos = 0
    /\ cur = NoPair
    /\ in_range = FALSE
    /\ insert_seq_list = << >>
    /\ insert_qual_list = << >>
    /\ range_one_hot = << >>
    /\ range_quality = << >>
    /\ row_idx = {}
    /\ raised = NoError
    /\ result = NoResult
    /\ reads_alignment = << >>
    /\ reads_quality = << >>
    /\ overwrite \in BOOLEAN
    /\ \E earlier \in BOOLEAN :
         /\ saved_alignment = (IF earlier THEN OldFile ELSE NoFile)
         /\ saved_quality = (IF earlier THEN OldFile ELSE NoFile)
         /\ done_marker = earlier
    /\ sam_query_reader = "none"
    /\ rz = RzIdle

(***************************************************************************)
(* get_region_alignment over the disk an earlier run may have left and the *)
(* reads of the source, and                                                *)
(* get_read_alignment one loop iteration at a time.                        *)
(***************************************************************************)
\* region.py:134-137 with the marker never looked at
Skips_Never(ow, marker) == FALSE

\* region.py:134-137: the call returns at once
Skips(ow, marker) == ~ow /\ marker

\* region.py:150-153 with nothing written for an empty list
np_save_SkipEmpty(file, list) ==
    IF list = << >> THEN file
    ELSE [exists |-> TRUE, rows |-> list, writes |-> file.writes + 1]

\* region.py:150-153: np.save(path, np.array(list)) creates or replaces the
\* file, whatever the length of the list
np_save(file, list) ==
    [exists |-> TRUE, rows |-> list, writes |-> file.writes + 1]

\* region.py:134-137: the marker exists and overwrite is off
SkipDone ==
    /\ pc = "start"
    /\ Skips(overwrite, done_marker)
    /\ pc' = "skipped"
    /\ UNCHANGED <<region, ali_window, read, n_pairs, read_pos, ref_pos, cur,
                   in_range, insert_seq_list, insert_qual_list, range_one_hot,
                   range_quality, row_idx, raised, result, drvVars, rz, disp, fn>>

\* region.py:134-141: the alignment source is opened
Open ==
    /\ pc = "start"
    /\ ~Skips(overwrite, done_marker)
    /\ sam_query_reader' = "open"
    /\ pc' = "fetch"
    /\ UNCHANGED <<region, ali_window, read, n_pairs, read_pos, ref_pos, cur,
                   in_range, insert_seq_list, insert_qual_list, range_one_hot,
                   range_quality, row_idx, raised, result, reads_alignment,
                   reads_quality, saved_alignment, saved_quality, done_marker,
                   overwrite, source, results, rz,
                   disp, fn>>

\* region.py:142 and 148: the fetch yields no further read, the loop ends
\* and the source is closed
FetchNone ==
    /\ pc = "fetch"
    /\ Len(results) = Len(source)
    /\ pc' = "loop_done"
    /\ sam_query_reader' = "closed"
    /\ UNCHANGED <<region, ali_window, read, n_pairs, read_pos, ref_pos, cur,
                   in_range, insert_seq_list, insert_qual_list, range_one_hot,
                   range_quality, row_idx, raised, result, reads_alignment,
                   reads_quality, saved_alignment, saved_quality, done_marker,
                   overwrite, source, results, rz,
                   disp, fn>>

\* region.py:143 and 158-163: the fetch yields the read; the encoder is
\* called and returns at once or enters its loop
CallEncoder ==
    /\ pc = "fetch"
    /\ Len(results) < Len(source)
    /\ IF StrandMismatch(read, region)
       THEN /\ pc' = "returned"
            /\ result' = [kind |-> "empty", alignment |-> << >>,
                          quality |-> << >>]
            /\ UNCHANGED <<range_one_hot, range_quality>>
       ELSE /\ pc' = "scan"
            /\ range_one_hot' = zeros2(ali_window)
            /\ range_quality' = zeros1(ali_window)
            /\ UNCHANGED result
    /\ UNCHANGED <<region, ali_window, read, n_pairs, read_pos, ref_pos, cur,
                   in_range, insert_seq_list, insert_qual_list, row_idx,
                   raised, drvVars, rz, disp, fn>>

\* region.py:164: what read.get_aligned_pairs() may yield next
OfferedOps ==
    IF Scripted
    THEN IF n_pairs < Len(read.script) THEN {read.script[n_pairs + 1].op}
         ELSE {}
    ELSE IF n_pairs < MaxPairs THEN Ops ELSE {}

OfferedBases ==
    IF Scripted THEN {read.script[n_pairs + 1].base} ELSE Bases

OfferedQuals ==
    IF Scripted THEN {read.script[n_pairs + 1].qual} ELSE Quals

\* region.py:224-229: the loop is over, the call returns and its locals
\* are gone
ReturnFromScan ==
    /\ result' = ReturnValue(range_one_hot, range_quality)
    /\ pc' = "returned"
    /\ n_pairs' = 0
    /\ read_pos' = 0
    /\ ref_pos' = read.reference_start
    /\ cur' = NoPair
    /\ in_range' = FALSE
    /\ insert_seq_list' = << >>
    /\ insert_qual_list' = << >>
    /\ range_one_hot' = << >>
    /\ range_quality' = << >>
    /\ row_idx' = {}
    /\ raised' = NoError

\* region.py:164-223: one loop iteration; on break, region.py:224-229
Step ==
    /\ pc = "scan"
    /\ \E op \in OfferedOps :
         LET read_index == IF op \in {"M", "I"} THEN read_pos ELSE None
             ref_index == IF op \in {"M", "D"} THEN ref_pos ELSE None
             lb == HasBase(Locals, region, read_index, ref_index)
         IN  \E base \in (IF lb THEN OfferedBases ELSE {NoBase}),
                q \in (IF lb THEN OfferedQuals ELSE {None}) :
               IF Breaks(region, ref_index)
               THEN ReturnFromScan
               ELSE \E st \in {ScanPair(Locals, region, read_index,
                                        ref_index, base, q)} :
                        /\ n_pairs' = n_pairs + 1
                        /\ read_pos' = IF op \in {"M", "I"} THEN read_pos + 1
                                       ELSE read_pos
                        /\ ref_pos' = IF op \in {"M", "D"} THEN ref_pos + 1
                                      ELSE ref_pos
                        /\ cur' = [read_index |-> read_index,
                                   ref_index |-> ref_index,
                                   base |-> base, qual |-> q]
                        /\ pc' = IF st.raised # NoError THEN "raised"
                                 ELSE "scan"
                        /\ in_range' = st.in_range
                        /\ insert_seq_list' = st.insert_seq_list
                        /\ insert_qual_list' = st.insert_qual_list
                        /\ range_one_hot' = st.range_one_hot
                        /\ range_quality' = st.range_quality
                        /\ row_idx' = st.row_idx
                        /\ raised' = st.raised
                        /\ UNCHANGED result
    /\ UNCHANGED <<region, ali_window, read, drvVars, rz, disp, fn>>

\* region.py:164 and 224-229: the aligned pairs are exhausted
EndOfPairs ==
    /\ pc = "scan"
    /\ Scripted => n_pairs = Len(read.script)
    /\ ReturnFromScan
    /\ UNCHANGED <<region, ali_window, read, drvVars, rz, disp, fn>>

\* region.py:146-147 with the new row put in front
append_Front(list, x) == <<x>> \o list

\* region.py:146-147: list.append
append(list, x) == Append(list, x)

\* region.py:143-147: the call has returned, a non-empty result is
\* collected, and the loop goes on to the next read of the fetch
Collect ==
    /\ pc = "returned"
    /\ IF result.kind = "record"
       THEN /\ reads_alignment' = append(reads_alignment, result.alignment)
            /\ reads_quality' = append(reads_quality, result.quality)
       ELSE UNCHANGED <<reads_alignment, reads_quality>>
    /\ results' = Append(results, result)
    /\ read' = (IF Len(results') < Len(source)
                THEN source[Len(results') + 1] ELSE read)
    /\ ref_pos' = read'.reference_start
    /\ pc' = "fetch"
    /\ UNCHANGED <<region, ali_window, n_pairs, read_pos, cur,
                   in_range, insert_seq_list, insert_qual_list, range_one_hot,
                   range_quality, row_idx, raised, result, saved_alignment,
                   saved_quality, done_marker, overwrite, sam_query_reader,
                   source, rz, disp, fn>>

\* region.py:150-151
SaveAlignment ==
    /\ pc = "loop_done"
    /\ saved_alignment' = np_save(saved_alignment, reads_alignment)
    /\ pc' = "alignment_saved"
    /\ UNCHANGED <<region, ali_window, read, n_pairs, read_pos, ref_pos, cur,
                   in_range, insert_seq_list, insert_qual_list, range_one_hot,
                   range_quality, row_idx, raised, result, reads_alignment,
                   reads_quality, saved_quality, done_marker, overwrite,
                   sam_query_reader, source, results, rz,
                   disp, fn>>

\* region.py:152-153
SaveQuality ==
    /\ pc = "alignment_saved"
    /\ saved_quality' = np_save(saved_quality, reads_quality)
    /\ pc' = "quality_saved"
    /\ UNCHANGED <<region, ali_window, read, n_pairs, read_pos, ref_pos, cur,
                   in_range, insert_seq_list, insert_qual_list, range_one_hot,
                   range_quality, row_idx, raised, result, reads_alignment,
                   reads_quality, saved_alignment, done_marker, overwrite,
                   sam_query_reader, source, results, rz,
                   disp, fn>>

\* region.py:154 with the marker set as soon as the source is closed
Touch_BeforeSaves ==
    /\ pc = "loop_done"
    /\ ~done_marker
    /\ done_marker' = TRUE
    /\ UNCHANGED <<encVars, reads_alignment, reads_quality, saved_alignment,
                   saved_quality, overwrite, sam_query_reader, source, results, rz,
                   disp, fn>>

\* region.py:154
Touch ==
    /\ pc = "quality_saved"
    /\ done_marker' = TRUE
    /\ pc' = "done"
    /\ UNCHANGED <<region, ali_window, read, n_pairs, read_pos, ref_pos, cur,
                   in_range, insert_seq_list, insert_qual_list, range_one_hot,
                   range_quality, row_idx, raised, result, reads_alignment,
                   reads_quality, saved_alignment, saved_quality, overwrite,
                   sam_query_reader, source, results, rz,
                   disp, fn>>

Next ==
    \/ SkipDone
    \/ Open
    \/ FetchNone
    \/ CallEncoder
    \/ Step
    \/ EndOfPairs
    \/ Collect
    \/ SaveAlignment
    \/ SaveQuality
    \/ Touch

Spec == Init /\ [][Next]_vars

(***************************************************************************)
(* Properties of the encoder.                                              *)
(*                                                                         *)
(* An iteration that handles a pair in range is a Step that stays in the   *)
(* call (it does not break) and after whose line 165-166 in_range holds;   *)
(* cur' is the pair, the unprimed locals are those before the iteration.   *)
(***************************************************************************)
InRangeIteration == pc = "scan" /\ n_pairs' = n_pairs + 1 /\ in_range'

ACGT == {"A", "C", "G", "T"}
Channel(base) == CASE base = "A" -> 0 [] base = "C" -> 1
                   [] base = "G" -> 2 [] base = "T" -> 3

Row(pair) == pair.ref_index - region.start

IsMatch(pair) == pair.read_index # None /\ pair.ref_index # None
IsDeletion(pair) == pair.read_index = None /\ pair.ref_index # None
IsInsertion(pair) == pair.read_index # None /\ pair.ref_index = None

\* every entry of the matrix other than those of row r is as before
OtherRowsSame(r) ==
    \A x \in DOMAIN range_one_hot : x # r =>
        /\ range_one_hot'[x] = range_one_hot[x]
        /\ range_quality'[x] = range_quality[x]

\* C1: every in-range pair with both positions non-null (0 included) and no
\* insertion run pending sets the base's channel (A:0 C:1 G:2 T:3) at row
\* ref - region.start to 1, sets the quality of that row to the base's
\* quality and sets no other channel.  Stated for windows of at least one
\* row and bases A, C, G, T.
C1_MatchSetsOneHot ==
    [][(/\ InRangeIteration
        /\ ali_window >= 1
        /\ IsMatch(cur')
        /\ cur'.base \in ACGT
        /\ insert_seq_list = << >>)
       => /\ raised' = NoError
          /\ Row(cur') \in DOMAIN range_one_hot'
          /\ range_one_hot'[Row(cur')][Channel(cur'.base)] = One
          /\ range_quality'[Row(cur')] = FromPhred(cur'.qual)
          /\ \A c \in 0..5 : c # Channel(cur'.base) =>
                range_one_hot'[Row(cur')][c] = range_one_hot[Row(cur')][c]
          /\ OtherRowsSame(Row(cur'))]_vars

\* C2: a match at reference position r that arrives in range while an
\* insertion run is pending leaves, on both strands, the matched base's
\* channel of row r - region.start set to 1.  Stated for windows of at
\* least one row and runs and bases over A, C, G, T.
C2_MatchRecordedAfterFold ==
    [][(/\ InRangeIteration
        /\ ali_window >= 1
        /\ IsMatch(cur')
        /\ cur'.base \in ACGT
        /\ insert_seq_list # << >>
        /\ CanPack(insert_seq_list))
       => /\ raised' = NoError
          /\ Row(cur') \in DOMAIN range_one_hot'
          /\ range_one_hot'[Row(cur')][Channel(cur'.base)] = One]_vars

\* C3: every in-range pair with a null read position and a reference
\* position r (0 included) sets channel 4 of row r - region.start to 1, on
\* both strands, with or without a pending insertion run.  Stated for
\* windows of at least one row and runs over A, C, G, T.
C3_DeletionSetsChannel4 ==
    [][(/\ InRangeIteration
        /\ ali_window >= 1
        /\ IsDeletion(cur')
        /\ CanPack(insert_seq_list))
       => /\ raised' = NoError
          /\ Row(cur') \in DOMAIN range_one_hot'
          /\ range_one_hot'[Row(cur')][4] = One]_vars

\* the integer a numeral stands for, and the integer the packing rule gives
\* a run: 4^n + sum of digit_i * 4^(n-i), digits A:0 C:1 G:2 T:3
RECURSIVE NumValue(_)
NumValue(ds) ==
    IF ds = << >> THEN 0
    ELSE 4 * NumValue(SubSeq(ds, 1, Len(ds) - 1)) + ds[Len(ds)]

RECURSIVE Pow4(_)
Pow4(k) == IF k = 0 THEN 1 ELSE 4 * Pow4(k - 1)

RECURSIVE RunDigits(_)
RunDigits(run) ==
    IF run = << >> THEN 0
    ELSE 4 * RunDigits(SubSeq(run, 1, Len(run) - 1)) + Channel(run[Len(run)])

PackedRun(run) == Pow4(Len(run)) + RunDigits(run)

\* C4: on a '+' region, a match or deletion at r that arrives with a pending
\* run (over A, C, G, T) sets channel 5 of row r - start - 1 to the packed
\* run, sets the quality of that row to the merge of the quality already
\* there followed by the run's qualities, leaves channels 0..4 of that row
\* unchanged and leaves no run pending.
C4_ForwardFold ==
    [][(/\ InRangeIteration
        /\ region.strand = "+"
        /\ cur'.ref_index # None
        /\ insert_seq_list # << >>
        /\ CanPack(insert_seq_list))
       => /\ raised' = NoError
          /\ Row(cur') - 1 \in DOMAIN range_one_hot
          /\ NumValue(range_one_hot'[Row(cur') - 1][5])
                = PackedRun(insert_seq_list)
          /\ range_quality'[Row(cur') - 1]
                = insert_requality(<<range_quality[Row(cur') - 1]>>
                                   \o insert_qual_list)
          /\ \A c \in 0..4 : range_one_hot'[Row(cur') - 1][c]
                                = range_one_hot[Row(cur') - 1][c]
          /\ insert_seq_list' = << >>
          /\ insert_qual_list' = << >>]_vars

\* a forward fold has just merged a run into a row that held a matched
\* base's quality
C4_Witness ==
    /\ pc = "scan"
    /\ region.strand = "+"
    /\ cur.ref_index # None
    /\ Row(cur) - 1 \in DOMAIN range_one_hot
    /\ range_one_hot[Row(cur) - 1][5] # Zero
    /\ \E c \in 0..3 : range_one_hot[Row(cur) - 1][c] = One
    /\ range_quality[Row(cur) - 1] \notin {QZero, FromPhred(10), FromPhred(20)}
    /\ insert_seq_list = << >>

\* C5: on a '-' region, a match at r with a pending run sets channel 5 of
\* row r - start to the packed run, the matched base's channel of the same
\* row to 1 and the quality of that row to the merge of the run's qualities
\* followed by the base's quality; a deletion with a pending run sets
\* channels 5 and 4 of row r - start and leaves the quality vector alone.
\* Neither touches row r - start - 1.
C5_ReverseFold ==
    [][(/\ InRangeIteration
        /\ region.strand = "-"
        /\ cur'.ref_index # None
        /\ insert_seq_list # << >>
        /\ CanPack(insert_seq_list)
        /\ IsMatch(cur') => cur'.base \in ACGT)
       => /\ raised' = NoError
          /\ Row(cur') \in DOMAIN range_one_hot
          /\ NumValue(range_one_hot'[Row(cur')][5])
                = PackedRun(insert_seq_list)
          /\ IsMatch(cur') =>
                /\ range_one_hot'[Row(cur')][Channel(cur'.base)] = One
                /\ range_quality'[Row(cur')]
                      = insert_requality(insert_qual_list
                                         \o <<FromPhred(cur'.qual)>>)
          /\ IsDeletion(cur') =>
                /\ range_one_hot'[Row(cur')][4] = One
                /\ range_quality' = range_quality
          /\ OtherRowsSame(Row(cur'))]_vars

\* a reverse fold has just written a packed run of two bases and a matched
\* base into the same row
C5_Witness ==
    /\ pc = "scan"
    /\ region.strand = "-"
    /\ IsMatch(cur)
    /\ cur.base \in ACGT
    /\ Row(cur) \in DOMAIN range_one_hot
    /\ Len(range_one_hot[Row(cur)][5]) = 3
    /\ range_one_hot[Row(cur)][Channel(cur.base)] = One
    /\ insert_seq_list = << >>

\* C6: every row index the call uses in a write lies in [0, window).
C6_RowsInWindow == \A i \in row_idx : 0 <= i /\ i < ali_window

\* the same for windows of at least one row
RowsInNonEmptyWindow == ali_window >= 1 => C6_RowsInWindow

\* the scripted read's inserted base and the quality of the matched base
\* before it
InsertedAt == CHOOSE i \in 1..Len(read.script) : read.script[i].op = "I"

\* rows of a returned alignment whose channel 5 is set
Channel5Rows(alignment) ==
    {r \in DOMAIN alignment : alignment[r][5] # Zero}

E2EOutcome(row) ==
    /\ result.kind = "record"
    /\ Channel5Rows(result.alignment) = {row}
    /\ NumValue(result.alignment[row][5])
          = PackedRun(<<read.script[InsertedAt].base>>)
    /\ result.quality[row]
          = insert_requality(<<FromPhred(read.script[InsertedAt - 1].qual),
                               FromPhred(30)>>)

\* C7 as stated: for region 100-110 on '+' and a read matching every
\* position with one inserted base of quality 30 between 104 and 105, the
\* returned alignment has channel 5 set in exactly one row, row 3, holding
\* the packed single base, and the quality of that row is the merge of the
\* flanking matched quality and 30.
C7_E2E_Row3 == (Scripted /\ pc = "returned") => E2EOutcome(3)

\* C7 amended: the same with row 4 (= 105 - 100 - 1, the row of position
\* 104) in place of row 3.
C7_E2E_Row4 == (Scripted /\ pc = "returned") => E2EOutcome(4)

\* the encoder has returned a record for the scripted read
C7_Witness ==
    /\ Scripted
    /\ pc = "returned"
    /\ result.kind = "record"
    /\ region = E2ERegion
    /\ ali_window = 10

\* C8: a read whose strand ('-' if is_reverse, else '+') differs from the
\* region's makes get_read_alignment return the empty result without
\* handling a pair, the driver append nothing, and the saved arrays hold
\* no row.
ReadStrandDiffers ==
    (read.is_reverse /\ region.strand = "+")
    \/ (~read.is_reverse /\ region.strand = "-")

C8_StrandMismatchEmpty ==
    [][ReadStrandDiffers
       => /\ (pc = "fetch" /\ pc' # "loop_done")
                => /\ pc' = "returned"
                   /\ result'.kind = "empty"
                   /\ n_pairs' = 0
                   /\ cur' = NoPair
          /\ pc' \notin {"scan", "raised"}
          /\ reads_alignment' = << >>
          /\ reads_quality' = << >>
          /\ saved_alignment'.rows = << >>
          /\ saved_quality'.rows = << >>]_vars

\* the driver has finished over a read of the other strand
C8_Witness ==
    /\ ReadStrandDiffers
    /\ pc = "done"
    /\ result.kind = "empty"
    /\ saved_alignment = [exists |-> TRUE, rows |-> << >>, writes |-> 1]
    /\ saved_quality = [exists |-> TRUE, rows |-> << >>, writes |-> 1]
    /\ done_marker

\* C9: when the scan ends the call returns a record if and only if some
\* entry of the matrix is non-zero; a returned record is the matrix, of
\* ali_window rows by 6 channels, with a quality vector of ali_window
\* entries.
C9_RecordIffNonZero ==
    [][(pc = "scan" /\ pc' = "returned")
       => /\ result'.kind \in {"record", "empty"}
          /\ result'.kind = "record"
                <=> \E r \in DOMAIN range_one_hot : \E c \in 0..5 :
                        range_one_hot[r][c] # Zero
          /\ result'.kind = "record"
                => /\ result'.alignment = range_one_hot
                   /\ result'.quality = range_quality
                   /\ DOMAIN result'.alignment = 0..(ali_window - 1)
                   /\ \A r \in DOMAIN result'.alignment :
                         DOMAIN result'.alignment[r] = 0..5
                   /\ DOMAIN result'.quality = 0..(ali_window - 1)]_vars

\* a populated record has been returned for a freely generated read
C9_Witness ==
    /\ ~Scripted
    /\ pc = "returned"
    /\ result.kind = "record"
    /\ \E r \in DOMAIN result.alignment : \E c \in 0..5 :
          result.alignment[r][c] # Zero

\* an all-zero scan has returned the empty result
EmptyAfterScan ==
    /\ pc = "returned"
    /\ ~ReadStrandDiffers
    /\ result.kind = "empty"

(***************************************************************************)
(* Properties of the region driver.                                        *)
(***************************************************************************)
Files == <<saved_alignment, saved_quality, done_marker>>

\* C17: a call that finds the marker with overwrite off returns at once:
\* the source is never opened, nothing is fetched or collected, the two
\* arrays and the marker stay exactly as they were, and nothing happens
\* after the return.
C17_MarkerSkips ==
    [][/\ (pc = "start" /\ done_marker /\ ~overwrite)
             => /\ pc' = "skipped"
                /\ sam_query_reader' = "none"
                /\ n_pairs' = 0
                /\ reads_alignment' = << >>
                /\ Files' = Files
       /\ pc # "skipped"]_vars

\* the call has returned over the files of an earlier run
C17_Witness ==
    /\ pc = "skipped"
    /\ done_marker
    /\ ~overwrite
    /\ sam_query_reader = "none"
    /\ saved_alignment = OldFile
    /\ saved_quality = OldFile

\* C18: after a run that failed no marker exists, whatever overwrite was
\* and whatever the disk held before.
C18_FailedRunLeavesNoMarker ==
    pc = "raised" => ~done_marker

\* the same for runs over a disk without files of an earlier run
FailedFirstRunLeavesNoMarker ==
    (pc = "raised" /\ ~saved_alignment.exists) => ~done_marker

\* a run with overwrite on has failed in the encoder
FailedOverwriteRun ==
    /\ pc = "raised"
    /\ overwrite
    /\ raised # NoError

\* C19: in a call that does work no file changes before the loop over the
\* reads has ended and the source is closed; then the alignment array is
\* saved, then the quality array, each once and holding what the loop
\* collected, and only then is the marker touched.
C19_SaveOrder ==
    [][/\ pc \in {"start", "fetch", "scan", "returned"} => Files' = Files
       /\ saved_alignment' # saved_alignment
             => /\ pc = "loop_done"
                /\ sam_query_reader = "closed"
                /\ saved_alignment.writes = 0
                /\ saved_quality.writes = 0
                /\ saved_alignment'.rows = reads_alignment
                /\ UNCHANGED <<saved_quality, done_marker>>
       /\ saved_quality' # saved_quality
             => /\ pc = "alignment_saved"
                /\ saved_alignment.writes = 1
                /\ saved_quality.writes = 0
                /\ saved_quality'.rows = reads_quality
                /\ UNCHANGED <<saved_alignment, done_marker>>
       /\ (done_marker' # done_marker \/ pc' = "done")
             => /\ pc = "quality_saved"
                /\ saved_alignment.writes = 1
                /\ saved_quality.writes = 1
                /\ done_marker'
                /\ UNCHANGED <<saved_alignment, saved_quality>>]_vars

\* a call that collected a read has finished
C19_Witness ==
    /\ pc = "done"
    /\ Len(reads_alignment) = 1
    /\ saved_alignment = [exists |-> TRUE, rows |-> reads_alignment,
                          writes |-> 1]
    /\ saved_quality = [exists |-> TRUE, rows |-> reads_quality,
                        writes |-> 1]
    /\ done_marker

\* C20: once the loop has ended without a collected read, the call saves
\* an alignment array without rows, then a quality array without rows,
\* then creates the marker, and raises nothing.
C20_NoReadsStillSaved ==
    [][(reads_alignment = << >> /\ reads_quality = << >>)
       => /\ pc = "loop_done"
             => /\ pc' = "alignment_saved"
                /\ saved_alignment'.exists
                /\ saved_alignment'.rows = << >>
                /\ saved_alignment'.writes = 1
          /\ pc = "alignment_saved"
             => /\ pc' = "quality_saved"
                /\ saved_quality'.exists
                /\ saved_quality'.rows = << >>
                /\ saved_quality'.writes = 1
          /\ pc = "quality_saved"
             => /\ pc' = "done"
                /\ done_marker'
                /\ raised' = NoError]_vars

\* a call over a read of the region's strand that left the matrix all zero
\* has finished
C20_Witness ==
    /\ pc = "done"
    /\ ~ReadStrandDiffers
    /\ result.kind = "empty"
    /\ reads_alignment = << >>
    /\ saved_alignment = [exists |-> TRUE, rows |-> << >>, writes |-> 1]
    /\ saved_quality = [exists |-> TRUE, rows |-> << >>, writes |-> 1]
    /\ done_marker

\* a call whose fetch yielded no read has finished
NoReadFinished ==
    /\ pc = "done"
    /\ result = NoResult
    /\ saved_alignment.rows = << >>
    /\ done_marker

(***************************************************************************)
(* The region driver over a source of several reads: a region of two       *)
(* columns and up to MaxReads reads, each one of four reads: two forward   *)
(* reads that cover the region with different bases, a reverse read, and   *)
(* a forward read that starts after the region's start.                    *)
(***************************************************************************)
MaxReads == 3

ReadsRegion == [start |-> 2, end |-> 4, strand |-> "+"]

Matches(bases, q) ==
    [i \in 1..Len(bases) |-> [op |-> "M", base |-> bases[i], qual |-> q]]

ReadPool ==
    {[is_reverse |-> FALSE, reference_start |-> 1,
      script |-> Matches(<<"G", "A", "C">>, 10)],
     [is_reverse |-> FALSE, reference_start |-> 1,
      script |-> Matches(<<"G", "T", "G">>, 20)],
     [is_reverse |-> TRUE, reference_start |-> 1,
      script |-> Matches(<<"G", "A", "C">>, 10)],
     [is_reverse |-> FALSE, reference_start |-> 3,
      script |-> Matches(<<"C", "A">>, 10)]}

Sources ==
    UNION {[1..n -> ReadPool] : n \in 0..MaxReads}

InitReads ==
    /\ region = ReadsRegion
    /\ ali_window = ReadsRegion.end - ReadsRegion.start
    /\ source \in Sources
    /\ read = (IF source = << >> THEN NoRead ELSE source[1])
    /\ ref_pos = read.reference_start
    /\ results = << >>
    /\ pc = "start"
    /\ n_pairs = 0
    /\ read_pos = 0
    /\ cur = NoPair
    /\ in_range = FALSE
    /\ insert_seq_list = << >>
    /\ insert_qual_list = << >>
    /\ range_one_hot = << >>
    /\ range_quality = << >>
    /\ row_idx = {}
    /\ raised = NoError
    /\ result = NoResult
    /\ reads_alignment = << >>
    /\ reads_quality = << >>
    /\ overwrite \in BOOLEAN
    /\ \E earlier \in BOOLEAN :
         /\ saved_alignment = (IF earlier THEN OldFile ELSE NoFile)
         /\ saved_quality = (IF earlier THEN OldFile ELSE NoFile)
         /\ done_marker = earlier
    /\ sam_query_reader = "none"
    /\ rz = RzIdle
    /\ disp = DispIdle
    /\ fn = FnIdle

SpecReads == InitReads /\ [][Next]_vars

\* the non-empty ones of the encoder's results, in the order of the reads
RECURSIVE Records(_)
Records(rs) ==
    IF rs = << >> THEN << >>
    ELSE (IF Head(rs).kind = "record" THEN <<Head(rs)>> ELSE << >>)
         \o Records(Tail(rs))

\* C21: when the driver has finished, every read of the source has been
\* encoded, both saved arrays have one row for each read whose result was
\* not empty, and row i of each is the matrix, respectively the quality
\* vector, of the i-th such read in the source's order.
C21_RowsFollowReads ==
    pc = "done"
       => /\ Len(results) = Len(source)
          /\ Len(saved_alignment.rows) = Len(Records(results))
          /\ Len(saved_quality.rows) = Len(Records(results))
          /\ \A i \in 1..Len(Records(results)) :
                /\ saved_alignment.rows[i] = Records(results)[i].alignment
                /\ saved_quality.rows[i] = Records(results)[i].quality

\* a finished run over three reads, the second of which gave no record and
\* the other two different records
C21_Witness ==
    /\ pc = "done"
    /\ Len(source) = 3
    /\ Len(results) = 3
    /\ results[1].kind = "record"
    /\ results[2].kind = "empty"
    /\ results[3].kind = "record"
    /\ results[1].alignment # results[3].alignment
    /\ results[1].quality # results[3].quality
    /\ Len(saved_alignment.rows) = 2
    /\ Len(saved_quality.rows) = 2

(***************************************************************************)
(* Region (region.py:55-127).  A Region is built by Region.__init__ and    *)
(* then resized in place.  One Resize action is one resize call, nested    *)
(* calls included.  RecursionLimit stands for the interpreter's recursion  *)
(* limit: a call that would nest deeper raises RecursionError, leaving the *)
(* Region as the frames before it set it.  Of the last call rz keeps the   *)
(* arguments, the Region it started from and the branch it took, and of    *)
(* the call before it the branch it took; the arguments of __init__ are    *)
(* kept until the first resize call.                                       *)
(***************************************************************************)
RecursionLimit == 3
MaxCoord == 6          \* largest coordinate passed to Region.__init__
MaxResizeWindow == 5   \* largest window passed to resize
MaxLimit == 7          \* largest limit passed to resize

\* region.py:73-78 with start and end exchanged instead of the error
Region__init__Coerce(chrom, start, end, strand, info, offset) ==
    LET args == [chrom |-> chrom, start |-> start, end |-> end,
                 strand |-> strand, info |-> info, offset |-> offset]
        lo == IF start <= end THEN start ELSE end
        hi == IF start <= end THEN end ELSE start
    IN  IF strand \in {"+", "-"}
        THEN [RzIdle EXCEPT !.made = TRUE, !.chrom = chrom, !.start = lo,
                            !.end = hi, !.strand = strand, !.info = info,
                            !.offset = offset, !.args = args]
        ELSE [RzIdle EXCEPT !.raised = "ValueError", !.args = args]

\* region.py:55-85
Region__init__(chrom, start, end, strand, info, offset) ==
    LET args == [chrom |-> chrom, start |-> start, end |-> end,
                 strand |-> strand, info |-> info, offset |-> offset]
    IN  IF ~(start <= end)
        THEN [RzIdle EXCEPT !.raised = "ValueError", !.args = args]
        ELSE IF ~(strand \in {"+", "-"})
        THEN [RzIdle EXCEPT !.raised = "ValueError", !.args = args]
        ELSE [RzIdle EXCEPT !.made = TRUE, !.chrom = chrom, !.start = start,
                            !.end = end, !.strand = strand, !.info = info,
                            !.offset = offset, !.args = args]

\* the branch a call took
Took(r, b) == [r EXCEPT !.branch = b]

\* region.py:100-118 with the right-edge test before the left-edge test
Grow_RightClampFirst(r, window, limit) ==
    LET flank_size == (window - (r.end - r.start)) \div 2 IN
    IF Truthy(limit) /\ r.end + flank_size + 1 - r.offset >= limit
    THEN Took([r EXCEPT !.start = limit - window, !.end = limit],
              "right_clamp")
    ELSE IF r.start - flank_size - r.offset <= 0
    THEN Took([r EXCEPT !.start = 0, !.end = window], "left_clamp")
    ELSE IF (window - (r.end - r.start)) % 2 = 0
    THEN Took([r EXCEPT !.start = r.start - flank_size,
                        !.end = r.end + flank_size], "even")
    ELSE IF r.offset # 0
    THEN Took([r EXCEPT !.start = r.start - flank_size - 1,
                        !.end = r.end + flank_size, !.offset = 0], "odd_left")
    ELSE Took([r EXCEPT !.start = r.start - flank_size,
                        !.end = r.end + flank_size + 1, !.offset = 1],
              "odd_right")

\* region.py:100-118 with > for >= in the right-edge test
Grow_RightClampStrict(r, window, limit) ==
    LET flank_size == (window - (r.end - r.start)) \div 2 IN
    IF r.start - flank_size - r.offset <= 0
    THEN Took([r EXCEPT !.start = 0, !.end = window], "left_clamp")
    ELSE IF Truthy(limit) /\ r.end + flank_size + 1 - r.offset > limit
    THEN Took([r EXCEPT !.start = limit - window, !.end = limit],
              "right_clamp")
    ELSE IF (window - (r.end - r.start)) % 2 = 0
    THEN Took([r EXCEPT !.start = r.start - flank_size,
                        !.end = r.end + flank_size], "even")
    ELSE IF r.offset # 0
    THEN Took([r EXCEPT !.start = r.start - flank_size - 1,
                        !.end = r.end + flank_size, !.offset = 0], "odd_left")
    ELSE Took([r EXCEPT !.start = r.start - flank_size,
                        !.end = r.end + flank_size + 1, !.offset = 1],
              "odd_right")

\* region.py:100-118 with the extra base of an odd delta always on the right
Grow_AlwaysRight(r, window, limit) ==
    LET flank_size == (window - (r.end - r.start)) \div 2 IN
    IF r.start - flank_size - r.offset <= 0
    THEN Took([r EXCEPT !.start = 0, !.end = window], "left_clamp")
    ELSE IF Truthy(limit) /\ r.end + flank_size + 1 - r.offset >= limit
    THEN Took([r EXCEPT !.start = limit - window, !.end = limit],
              "right_clamp")
    ELSE IF (window - (r.end - r.start)) % 2 = 0
    THEN Took([r EXCEPT !.start = r.start - flank_size,
                        !.end = r.end + flank_size], "even")
    ELSE Took([r EXCEPT !.start = r.start - flank_size,
                        !.end = r.end + flank_size + 1,
                        !.offset = 1 - r.offset],
              IF r.offset # 0 THEN "odd_left" ELSE "odd_right")

\* region.py:100-118 without the right-edge test
Grow_IgnoreLimit(r, window, limit) ==
    LET flank_size == (window - (r.end - r.start)) \div 2 IN
    IF r.start - flank_size - r.offset <= 0
    THEN Took([r EXCEPT !.start = 0, !.end = window], "left_clamp")
    ELSE IF (window - (r.end - r.start)) % 2 = 0
    THEN Took([r EXCEPT !.start = r.start - flank_size,
                        !.end = r.end + flank_size], "even")
    ELSE IF r.offset # 0
    THEN Took([r EXCEPT !.start = r.start - flank_size - 1,
                        !.end = r.end + flank_size, !.offset = 0], "odd_left")
    ELSE Took([r EXCEPT !.start = r.start - flank_size,
                        !.end = r.end + flank_size + 1, !.offset = 1],
              "odd_right")

\* region.py:100-118: window > end - start
Grow(r, window, limit) ==
    LET flank_size == (window - (r.end - r.start)) \div 2 IN
    IF r.start - flank_size - r.offset <= 0
    THEN Took([r EXCEPT !.start = 0, !.end = window], "left_clamp")
    ELSE IF Truthy(limit) /\ r.end + flank_size + 1 - r.offset >= limit
    THEN Took([r EXCEPT !.start = limit - window, !.end = limit],
              "right_clamp")
    ELSE IF (window - (r.end - r.start)) % 2 = 0
    THEN Took([r EXCEPT !.start = r.start - flank_size,
                        !.end = r.end + flank_size], "even")
    ELSE IF r.offset # 0
    THEN Took([r EXCEPT !.start = r.start - flank_size - 1,
                        !.end = r.end + flank_size, !.offset = 0], "odd_left")
    ELSE Took([r EXCEPT !.start = r.start - flank_size,
                        !.end = r.end + flank_size + 1, !.offset = 1],
              "odd_right")

\* region.py:119-126 with offset counted up instead of recomputed
Shrink_CountOffset(r) ==
    LET mid == (r.start + r.end - r.offset) \div 2 IN
    Took([r EXCEPT !.start = mid, !.end = mid + 1, !.offset = r.offset + 1],
         "shrink")

\* region.py:119-126 with the midpoint taken without the offset
Shrink_IgnoreOffset(r) ==
    LET mid == (r.start + r.end) \div 2 IN
    Took([r EXCEPT !.start = mid, !.end = mid + 1,
                   !.offset = IF (mid + 1 - mid - r.offset) % 2 = 0
                              THEN 1 ELSE 0],
         "shrink")

\* region.py:119-126: window < end - start, up to the nested call
Shrink(r) ==
    LET mid == (r.start + r.end - r.offset) \div 2 IN
    Took([r EXCEPT !.start = mid, !.end = mid + 1,
                   !.offset = IF (mid + 1 - mid - r.offset) % 2 = 0
                              THEN 1 ELSE 0],
         "shrink")

\* region.py:98-127: the call at nesting depth r.depth
RECURSIVE resize(_, _, _)
resize(r, window, limit) ==
    IF window > r.end - r.start THEN Grow(r, window, limit)
    ELSE IF window < r.end - r.start
    THEN IF r.depth + 1 > RecursionLimit
         THEN [Shrink(r) EXCEPT !.raised = "RecursionError"]
         ELSE resize([Shrink(r) EXCEPT !.depth = r.depth + 1], window, limit)
    ELSE r

ResizeWindows == 0..MaxResizeWindow
ResizeLimits == {None} \cup 1..MaxLimit
Chroms == {"chr1"}
Infos == {"m6A"}
StrandArgs == Strands \cup {"."}

InitResize ==
    /\ rz = RzIdle
    /\ region = E2ERegion
    /\ read = NoRead
    /\ source = << >>
    /\ results = << >>
    /\ disp = DispIdle
    /\ fn = FnIdle
    /\ ali_window = 0
    /\ ref_pos = 0
    /\ pc = "construct"
    /\ n_pairs = 0
    /\ read_pos = 0
    /\ cur = NoPair
    /\ in_range = FALSE
    /\ insert_seq_list = << >>
    /\ insert_qual_list = << >>
    /\ range_one_hot = << >>
    /\ range_quality = << >>
    /\ row_idx = {}
    /\ raised = NoError
    /\ result = NoResult
    /\ reads_alignment = << >>
    /\ reads_quality = << >>
    /\ saved_alignment = NoFile
    /\ saved_quality = NoFile
    /\ done_marker = FALSE
    /\ overwrite = FALSE
    /\ sam_query_reader = "none"

\* a caller builds the Region; an uncaught ValueError ends the program
Construct ==
    /\ pc = "construct"
    /\ \E chrom \in Chroms, start \in 0..MaxCoord, end \in 0..MaxCoord,
          strand \in StrandArgs, info \in Infos, offset \in {0, 1} :
         /\ rz' = Region__init__(chrom, start, end, strand, info, offset)
         /\ pc' = IF rz'.raised = NoError THEN "resize" ELSE "raised"
    /\ UNCHANGED <<region, ali_window, read, n_pairs, read_pos, ref_pos, cur,
                   in_range, insert_seq_list, insert_qual_list, range_one_hot,
                   range_quality, row_idx, raised, result, drvVars, disp, fn>>

\* a caller resizes the Region; an uncaught RecursionError ends the program
Resize ==
    /\ pc = "resize"
    /\ rz.raised = NoError
    /\ \E window \in ResizeWindows, limit \in ResizeLimits :
         rz' = resize([rz EXCEPT !.window = window, !.limit = limit,
                                 !.depth = 0, !.branch = "noop",
                                 !.prev = rz.branch, !.args = NoArgs,
                                 !.from = [start |-> rz.start,
                                           end |-> rz.end,
                                           offset |-> rz.offset]],
                      window, limit)
    /\ UNCHANGED <<encVars, drvVars, disp, fn>>

NextResize ==
    \/ Construct
    \/ Resize

SpecResize == InitResize /\ [][NextResize]_vars

\* the Region the last call's grow branch started from: the Region before
\* the call, or its midpoint when the call shrank first
IsResize == pc = "resize" /\ rz.raised = NoError
Width(r) == r.end - r.start
GrowsFrom(r, window) ==
    IF window < Width(r) THEN Shrink(r) ELSE r
IsGrow(r, window) == window > Width(GrowsFrom(r, window))
Flank(r, window) == (window - Width(GrowsFrom(r, window))) \div 2
LeftClampHolds(r, window) ==
    GrowsFrom(r, window).start - Flank(r, window)
        - GrowsFrom(r, window).offset <= 0
RightClampHolds(r, window, limit) ==
    /\ limit # None
    /\ GrowsFrom(r, window).end + Flank(r, window) + 1
           - GrowsFrom(r, window).offset >= limit

\* C10: every resize(w, limit) with w >= 0 and limit absent or positive on
\* a valid Region returns and leaves end - start = w, and a second
\* resize(w, limit) then changes nothing.
C10_ResizeSetsWidth ==
    [][IsResize
       => /\ rz'.raised = NoError
          /\ rz'.end - rz'.start = rz'.window
          /\ (rz.window = rz'.window /\ rz.limit = rz'.limit)
                => (rz'.start = rz.start /\ rz'.end = rz.end
                    /\ rz'.offset = rz.offset)]_vars

\* the same for windows of at least 1
ResizeSetsPositiveWidth ==
    [][(IsResize /\ rz'.window >= 1)
       => /\ rz'.raised = NoError
          /\ rz'.end - rz'.start = rz'.window
          /\ (rz.window = rz'.window /\ rz.limit = rz'.limit)
                => (rz'.start = rz.start /\ rz'.end = rz.end
                    /\ rz'.offset = rz.offset)]_vars

\* C11: whenever a resize call grows the Region (directly, or from the
\* midpoint it shrank to) and start - flank - offset <= 0, the call leaves
\* start = 0 and end = window, whatever the limit, the limits that meet the
\* right-edge condition included.
C11_LeftClampFirst ==
    [][(/\ IsResize
        /\ IsGrow(rz, rz'.window)
        /\ LeftClampHolds(rz, rz'.window))
       => /\ rz'.raised = NoError
          /\ rz'.start = 0
          /\ rz'.end = rz'.window]_vars

\* a grow in which both edge conditions held and the left one was taken
C11_Witness ==
    /\ rz.made
    /\ rz.branch = "left_clamp"
    /\ IsGrow(rz.from, rz.window)
    /\ LeftClampHolds(rz.from, rz.window)
    /\ RightClampHolds(rz.from, rz.window, rz.limit)
    /\ rz.start = 0
    /\ rz.end = rz.window
    /\ rz.limit # rz.window

C13_ShortChromosomeLeftClamp ==
    [][(/\ IsResize
        /\ rz'.limit # None
        /\ rz'.limit < rz'.window
        /\ 0 <= rz.start
        /\ rz.end <= rz'.limit)
       => /\ rz'.start = 0
          /\ rz'.end = rz'.window]_vars

\* C14: a grow in which no edge condition holds extends both sides by flank
\* and, when the delta is odd, one side by one more: the right side when
\* offset is 0, setting offset to 1, the left side when offset is 1,
\* setting offset to 0; an even delta leaves offset as it is.  Hence of two
\* successive odd grows from offset 0 the first extends the right side and
\* the second the left side, even grows in between changing nothing of it.
C14_OddGrowAlternates ==
    [][(/\ IsResize
        /\ rz'.window > Width(rz)
        /\ ~LeftClampHolds(rz, rz'.window)
        /\ ~RightClampHolds(rz, rz'.window, rz'.limit))
       => LET flank == Flank(rz, rz'.window) IN
          IF (rz'.window - Width(rz)) % 2 = 0
          THEN /\ rz'.start = rz.start - flank
               /\ rz'.end = rz.end + flank
               /\ rz'.offset = rz.offset
          ELSE IF rz.offset = 0
          THEN /\ rz'.start = rz.start - flank
               /\ rz'.end = rz.end + flank + 1
               /\ rz'.offset = 1
          ELSE /\ rz'.start = rz.start - flank - 1
               /\ rz'.end = rz.end + flank
               /\ rz'.offset = 0]_vars

\* two successive odd grows: the first to the right, the second to the left
C14_Witness ==
    /\ rz.made
    /\ rz.prev = "odd_right"
    /\ rz.branch = "odd_left"
    /\ rz.window > Width(rz.from)
    /\ rz.from.offset = 1
    /\ rz.start = rz.from.start - Flank(rz.from, rz.window) - 1
    /\ rz.end = rz.from.end + Flank(rz.from, rz.window)
    /\ rz.offset = 0

\* an even grow after an odd grow to the right: offset is still 1
EvenGrowKeepsOffset ==
    /\ rz.made
    /\ rz.prev = "odd_right"
    /\ rz.branch = "even"
    /\ rz.offset = 1

\* C15: every resize call with window >= 1 leaves start <= end and offset
\* in {0, 1}, and chrom, strand and info as they were.
C15_RegionInvariant ==
    [][(IsResize /\ rz'.window >= 1)
       => /\ rz'.start <= rz'.end
          /\ rz'.offset \in {0, 1}
          /\ rz'.chrom = rz.chrom
          /\ rz'.strand = rz.strand
          /\ rz'.info = rz.info]_vars

\* a call that shrank the Region to its midpoint and grew it again
C15_Witness ==
    /\ rz.made
    /\ rz.raised = NoError
    /\ rz.window >= 2
    /\ Width(rz.from) > rz.window
    /\ rz.start < rz.end
    /\ rz.offset \in {0, 1}
    /\ rz.chrom \in Chroms
    /\ rz.strand \in Strands
    /\ rz.info \in Infos

\* C16: Region.__init__ with start > end or a strand other than '+' and
\* '-' raises ValueError and no Region exists; otherwise (start = end
\* included) the Region exists with the start, end and strand passed.
C16_ConstructionErrors ==
    [][pc = "construct"
       => LET a == rz'.args IN
          IF a.start > a.end \/ a.strand \notin {"+", "-"}
          THEN /\ ~rz'.made
               /\ rz'.raised = "ValueError"
          ELSE /\ rz'.made
               /\ rz'.raised = NoError
               /\ rz'.start = a.start
               /\ rz'.end = a.end
               /\ rz'.strand = a.strand]_vars

\* a construction with start > end and a valid strand was refused
C16_Witness ==
    /\ ~rz.made
    /\ rz.raised = "ValueError"
    /\ rz.args.start > rz.args.end
    /\ rz.args.strand \in {"+", "-"}

\* a zero-width Region was accepted
EmptyRegionAccepted ==
    /\ rz.made
    /\ rz.branch = "none"
    /\ rz.start = rz.end
    /\ rz.start = rz.args.start

\* C31: every resize call with window >= 0 on a valid Region returns, and
\* makes at most one nested call.
C31_ResizeTerminates ==
    [][IsResize
       => /\ rz'.raised = NoError
          /\ rz'.depth <= 1]_vars

\* the same for windows of at least 1
PositiveWindowResizeTerminates ==
    [][(IsResize /\ rz'.window >= 1)
       => /\ rz'.raised = NoError
          /\ rz'.depth <= 1]_vars

\* a resize to window 0 of a Region with positions has run out of stack
ZeroWindowRecursed ==
    /\ rz.made
    /\ rz.window = 0
    /\ Width(rz.from) >= 1
    /\ rz.raised = "RecursionError"
    /\ rz.depth = RecursionLimit

\* C33: a resize(window, limit) with 1 <= window <= limit on a Region with
\* 0 <= start, end <= limit and offset in {0, 1} leaves 0 <= start and
\* end <= limit.
C33_StaysInChromosome ==
    [][(/\ IsResize
        /\ rz'.limit # None
        /\ 1 <= rz'.window
        /\ rz'.window <= rz'.limit
        /\ 0 <= rz.start
        /\ rz.end <= rz'.limit
        /\ rz.offset \in {0, 1})
       => /\ rz'.raised = NoError
          /\ 0 <= rz'.start
          /\ rz'.end <= rz'.limit]_vars

\* a call that shrank the Region to its midpoint and grew it again up to
\* the limit
C33_Witness ==
    /\ rz.made
    /\ rz.raised = NoError
    /\ rz.limit # None
    /\ rz.window >= 2
    /\ rz.window < rz.limit
    /\ Width(rz.from) > rz.window
    /\ rz.from.end <= rz.limit
    /\ rz.depth = 1
    /\ rz.branch = "right_clamp"
    /\ rz.start > 0
    /\ rz.end = rz.limit

(***************************************************************************)
(* A Region resized again and again, with the arguments of __init__        *)
(* remembered.  Here rz.prev is "clamped" once a call before the last one  *)
(* has taken the left-edge or the right-edge branch.                       *)
(***************************************************************************)
TrailWindows == ResizeWindows \ {0}
TrailLimits == {None, MaxLimit}
Clamps == {"left_clamp", "right_clamp"}

\* a caller resizes the Region once more
ResizeAgain ==
    /\ pc = "resize"
    /\ rz.raised = NoError
    /\ \E window \in TrailWindows, limit \in TrailLimits :
         rz' = resize([rz EXCEPT !.window = window, !.limit = limit,
                                 !.depth = 0, !.branch = "noop",
                                 !.prev = IF rz.prev = "clamped"
                                             \/ rz.branch \in Clamps
                                          THEN "clamped" ELSE rz.branch,
                                 !.from = [start |-> rz.start,
                                           end |-> rz.end,
                                           offset |-> rz.offset]],
                      window, limit)
    /\ UNCHANGED <<encVars, drvVars, disp, fn>>

NextResizeTrail ==
    \/ Construct
    \/ ResizeAgain

SpecResizeTrail == InitResize /\ [][NextResizeTrail]_vars

\* the centre base of a Region, and whether no call so far took a clamp
Centre(r) == (r.start + r.end - r.offset) \div 2
Unclamped == rz.made /\ rz.prev # "clamped" /\ rz.branch \notin Clamps

\* C32: after any number of resize calls with windows of at least 1, none
\* of which took the left-edge or the right-edge branch, the centre base
\* (start + end - offset) // 2 is that of the Region as it was built; and a
\* Region built with one base that is back at width 1 has the start and
\* end it was built with.
C32_CentreKept ==
    Unclamped
       => /\ rz.raised = NoError
          /\ Centre(rz) = Centre(rz.args)
          /\ (rz.args.end = rz.args.start + 1 /\ Width(rz) = 1)
                => (rz.start = rz.args.start /\ rz.end = rz.args.end)

\* a Region built with one base and offset 0, grown by an odd and then by
\* an even delta and now shrunk back to width 1
C32_Witness ==
    /\ Unclamped
    /\ rz.args.end = rz.args.start + 1
    /\ rz.args.offset = 0
    /\ rz.prev = "even"
    /\ rz.branch = "shrink"
    /\ rz.window = 1
    /\ Width(rz.from) = 4
    /\ rz.from.offset = 1
    /\ rz.start = rz.args.start
    /\ rz.end = rz.args.end

(***************************************************************************)
(* ExtractFeatures (extract_features.py:70-123): the bed file is read into *)
(* region_list, one argument tuple is built for each region, and a pool of *)
(* worker processes maps get_region_alignment over the tuples.  Region     *)
(* objects live in a heap and are named by their index in it.  Pool.map    *)
(* cuts the tuples into chunks; a worker takes one chunk at a time and     *)
(* runs its tuples in order; an exception ends the chunk.  The driver      *)
(* fails for the regions whose key is in disp.bad.                         *)
(***************************************************************************)
MaxBed == 5

BedLines ==
    {[chrom |-> "chr1", start |-> 4, end |-> 5, strand |-> "+", info |-> "a"],
     [chrom |-> "chr1", start |-> 6, end |-> 7, strand |-> "-", info |-> "b"]}
BedFiles == UNION {[1..n -> BedLines] : n \in 0..MaxBed}
ThreadArgs == {1, 2}
ChrLengths == {None, 9}
SeqWindows == {3}
AliWindows == {2}

\* region.py:91-92
Region__str__(r) ==
    r.chrom \o "_" \o r.strand \o "_" \o ToString(r.start) \o "-"
        \o ToString(r.end)

BedKeys == {Region__str__(l) : l \in BedLines}

\* region.py:94-96 with the Region itself returned
copy_Alias(heap, id) == [heap |-> heap, id |-> id]

\* region.py:94-96: a new Region built from the fields of heap[id]
copy(heap, id) ==
    [heap |-> Append(heap, Region__init__(heap[id].chrom, heap[id].start,
                                          heap[id].end, heap[id].strand,
                                          heap[id].info, heap[id].offset)),
     id |-> Len(heap) + 1]

\* region.py:135, 150-154: the files get_region_alignment names by the key
Paths(region_string) ==
    {region_string \o ".reads_alignment.npy",
     region_string \o ".reads_quality.npy",
     region_string \o ".ali.done"}

\* Pool.map (extract_features.py:122): the chunk size for n tuples
Chunksize(n, procs) ==
    (n \div (procs * 4)) + (IF n % (procs * 4) # 0 THEN 1 ELSE 0)

NumChunks(n, chunksize) ==
    (n \div chunksize) + (IF n % chunksize # 0 THEN 1 ELSE 0)

\* the tuple at position pos of chunk k, and the last tuple of chunk k
TaskAt(k, pos) == (k - 1) * disp.chunksize + pos
LastOf(k) ==
    IF k * disp.chunksize <= Len(disp.args_list) THEN k * disp.chunksize
    ELSE Len(disp.args_list)

Min(a, b) == IF a <= b THEN a ELSE b

InitDispatch ==
    /\ \E bed \in BedFiles, threads \in ThreadArgs, limit \in ChrLengths,
          sw \in SeqWindows, aw \in AliWindows, bad \in SUBSET BedKeys :
         disp = [phase |-> "sequence", bed |-> bed, threads |-> threads,
                 chr_length |-> limit, seq_window |-> sw, ali_window |-> aw,
                 bad |-> bad, heap |-> << >>, each_region |-> << >>,
                 region_list |-> << >>, region_str_set |-> {},
                 args_list |-> << >>, procs |-> 0, chunksize |-> 0,
                 next_chunk |-> 0, number_left |-> 0, workers |-> << >>,
                 status |-> << >>, error |-> 0, raised |-> NoError,
                 reported |-> {}, writers |-> {}]
    /\ rz = RzIdle
    /\ fn = FnIdle
    /\ region = E2ERegion
    /\ read = NoRead
    /\ source = << >>
    /\ results = << >>
    /\ ali_window = 0
    /\ ref_pos = 0
    /\ pc = "dispatch"
    /\ n_pairs = 0
    /\ read_pos = 0
    /\ cur = NoPair
    /\ in_range = FALSE
    /\ insert_seq_list = << >>
    /\ insert_qual_list = << >>
    /\ range_one_hot = << >>
    /\ range_quality = << >>
    /\ row_idx = {}
    /\ raised = NoError
    /\ result = NoResult
    /\ reads_alignment = << >>
    /\ reads_quality = << >>
    /\ saved_alignment = NoFile
    /\ saved_quality = NoFile
    /\ done_marker = FALSE
    /\ overwrite = FALSE
    /\ sam_query_reader = "none"

\* extract_features.py:86-91 (and bed.py:36-37): one bed line
ReadBedLine ==
    /\ disp.phase = "sequence"
    /\ Len(disp.each_region) < Len(disp.bed)
    /\ LET line == disp.bed[Len(disp.each_region) + 1]
           heap1 == Append(disp.heap,
                           Region__init__(line.chrom, line.start, line.end,
                                          line.strand, line.info, 0))
           id == Len(heap1)
           c == copy(heap1, id)
           region_string == Region__str__(c.heap[id])
           heap2 == [c.heap EXCEPT
                        ![id] = resize([@ EXCEPT !.depth = 0],
                                       disp.seq_window, disp.chr_length)]
       IN  disp' = [disp EXCEPT
                       !.heap = heap2,
                       !.each_region = Append(@, id),
                       !.region_list = Append(@, c.id),
                       !.region_str_set = @ \cup {region_string}]
    /\ UNCHANGED <<encVars, drvVars, rz, fn>>

\* extract_features.py:86 and 105: the bed file is exhausted
BedRead ==
    /\ disp.phase = "sequence"
    /\ Len(disp.each_region) = Len(disp.bed)
    /\ disp' = [disp EXCEPT !.phase = "alignment"]
    /\ UNCHANGED <<encVars, drvVars, rz, fn>>

\* extract_features.py:112-120: the argument tuple of one region
BuildArgs ==
    /\ disp.phase = "alignment"
    /\ Len(disp.args_list) < Len(disp.region_list)
    /\ LET each_region == disp.region_list[Len(disp.args_list) + 1]
           c == copy(disp.heap, each_region)
           heap2 == [c.heap EXCEPT
                        ![c.id] = resize([@ EXCEPT !.depth = 0],
                                         disp.ali_window, disp.chr_length)]
       IN  disp' = [disp EXCEPT
                       !.heap = heap2,
                       !.args_list =
                           Append(@, [region |-> c.id,
                                      region_string |->
                                          Region__str__(heap2[each_region])])]
    /\ UNCHANGED <<encVars, drvVars, rz, fn>>

\* extract_features.py:106 and 121-122: the pool is created and the map
\* is started; Pool(0) raises ValueError
StartPool ==
    /\ disp.phase = "alignment"
    /\ Len(disp.args_list) = Len(disp.region_list)
    /\ LET n == Len(disp.args_list)
           procs == Min(disp.threads, n)
       IN  IF procs < 1
           THEN disp' = [disp EXCEPT !.phase = "raised",
                                     !.raised = "ValueError"]
           ELSE disp' = [disp EXCEPT
                            !.phase = "pool",
                            !.procs = procs,
                            !.chunksize = Chunksize(n, procs),
                            !.next_chunk = 1,
                            !.number_left =
                                NumChunks(n, Chunksize(n, procs)),
                            !.workers = [w \in 1..procs |->
                                            [chunk |-> 0, pos |-> 0]],
                            !.status = [t \in 1..n |-> "pending"]]
    /\ UNCHANGED <<encVars, drvVars, rz, fn>>

\* Pool.map: an idle worker takes the next chunk
TakeChunk ==
    /\ disp.phase = "pool"
    /\ \E w \in 1..disp.procs :
         /\ disp.workers[w].chunk = 0
         /\ disp.next_chunk
               <= NumChunks(Len(disp.args_list), disp.chunksize)
         /\ disp' = [disp EXCEPT
                        !.workers[w] = [chunk |-> disp.next_chunk, pos |-> 1],
                        !.next_chunk = @ + 1]
    /\ UNCHANGED <<encVars, drvVars, rz, fn>>

\* Pool.map: a worker calls get_region_alignment on the next tuple of its
\* chunk; the call writes the region's files or raises, and an exception
\* ends the chunk and is kept if it is the first
RunTask ==
    /\ disp.phase = "pool"
    /\ \E w \in 1..disp.procs :
         /\ disp.workers[w].chunk # 0
         /\ LET k == disp.workers[w].chunk
                t == TaskAt(k, disp.workers[w].pos)
                key == disp.args_list[t].region_string
            IN  IF key \in disp.bad
                THEN disp' = [disp EXCEPT
                                 !.status[t] = "failed",
                                 !.workers[w] = [chunk |-> 0, pos |-> 0],
                                 !.number_left = @ - 1,
                                 !.error = IF @ = 0 THEN t ELSE @]
                ELSE disp' = [disp EXCEPT
                                 !.status[t] = "done",
                                 !.writers =
                                     @ \cup {<<path, t>> : path \in Paths(key)},
                                 !.workers[w] =
                                     IF t = LastOf(k)
                                     THEN [chunk |-> 0, pos |-> 0]
                                     ELSE [chunk |-> k, pos |-> @.pos + 1],
                                 !.number_left =
                                     IF t = LastOf(k) THEN @ - 1 ELSE @]
    /\ UNCHANGED <<encVars, drvVars, rz, fn>>

\* Pool.map: every chunk has ended; map returns, or raises the exception
\* it kept
MapReturns ==
    /\ disp.phase = "pool"
    /\ disp.number_left = 0
    /\ disp' = [disp EXCEPT
                   !.phase = IF disp.error = 0 THEN "returned" ELSE "raised",
                   !.raised = IF disp.error = 0 THEN NoError
                              ELSE "WorkerError",
                   !.reported = IF disp.error = 0 THEN {} ELSE {disp.error}]
    /\ UNCHANGED <<encVars, drvVars, rz, fn>>

NextDispatch ==
    \/ ReadBedLine
    \/ BedRead
    \/ BuildArgs
    \/ StartPool
    \/ TakeChunk
    \/ RunTask
    \/ MapReturns

SpecDispatch == InitDispatch /\ [][NextDispatch]_vars

\* the bed line a region of region_list was read from, and its key
LineOf(i) == disp.bed[i]
Tasks == 1..Len(disp.args_list)
PoolRan == disp.procs >= 1 /\ disp.phase \in {"returned", "raised"}

\* C22: the files named by the tuples of one dispatch are pairwise
\* disjoint, and no file is written by two tuples.
C22_DisjointPaths ==
    /\ \A i, j \in Tasks :
          i # j => Paths(disp.args_list[i].region_string)
                       \cap Paths(disp.args_list[j].region_string) = {}
    /\ \A a, b \in disp.writers : a[1] = b[1] => a[2] = b[2]

\* the same for bed files whose lines have pairwise different keys
DistinctKeys ==
    \A i, j \in 1..Len(disp.bed) :
        i # j => Region__str__(LineOf(i)) # Region__str__(LineOf(j))

DistinctKeysDisjointPaths ==
    DistinctKeys
       => /\ \A i, j \in Tasks :
                i # j => Paths(disp.args_list[i].region_string)
                             \cap Paths(disp.args_list[j].region_string) = {}
          /\ \A a, b \in disp.writers : a[1] = b[1] => a[2] = b[2]

\* two workers of one pool have written the same alignment file
TwoWorkersWroteOneFile ==
    /\ disp.procs = 2
    /\ \E a, b \in disp.writers : a[1] = b[1] /\ a[2] # b[2]

\* C23: when the map has returned or raised, the driver has run for every
\* region of the list, and the failures reported are all the failures.
C23_FailuresIsolated ==
    PoolRan
       => /\ \A t \in Tasks : disp.status[t] # "pending"
          /\ disp.reported = {t \in Tasks : disp.status[t] = "failed"}

\* the two halves of it
EveryRegionRun ==
    PoolRan => \A t \in Tasks : disp.status[t] # "pending"
EveryFailureReported ==
    PoolRan => disp.reported = {t \in Tasks : disp.status[t] = "failed"}

\* the same for dispatches in which no driver fails
NoFailureEveryRegionRun ==
    (PoolRan /\ \A t \in Tasks : disp.args_list[t].region_string \notin disp.bad)
       => /\ disp.phase = "returned"
          /\ \A t \in Tasks : disp.status[t] = "done"

\* C28: a region of region_list and its key are the bed line's, whatever
\* was resized since: the list's Region has the line's chrom, start, end,
\* strand and info and offset 0, the Region read from the bed (resized for
\* the sequence window) and the Region of the argument tuple (resized for
\* the alignment window) are other objects with the same chrom, strand and
\* info, and the tuple's key is the string of the bed line.
C28_CopyIndependent ==
    /\ \A i \in 1..Len(disp.region_list) :
          LET r == disp.heap[disp.region_list[i]]
              o == disp.heap[disp.each_region[i]]
          IN  /\ disp.region_list[i] # disp.each_region[i]
              /\ r.chrom = LineOf(i).chrom
              /\ r.start = LineOf(i).start
              /\ r.end = LineOf(i).end
              /\ r.strand = LineOf(i).strand
              /\ r.info = LineOf(i).info
              /\ r.offset = 0
              /\ o.chrom = r.chrom /\ o.strand = r.strand /\ o.info = r.info
              /\ o.end - o.start = disp.seq_window
    /\ \A i \in Tasks :
          LET r == disp.heap[disp.region_list[i]]
              a == disp.heap[disp.args_list[i].region]
          IN  /\ disp.args_list[i].region # disp.region_list[i]
              /\ disp.args_list[i].region_string = Region__str__(LineOf(i))
              /\ a.chrom = r.chrom /\ a.strand = r.strand /\ a.info = r.info
              /\ a.end - a.start = disp.ali_window

\* two regions have been read, resized for the sequence window, copied and
\* resized for the alignment window, and the list still holds the bed's
\* coordinates
C28_Witness ==
    /\ disp.phase = "pool"
    /\ Len(disp.args_list) = 2
    /\ \A i \in 1..2 :
          /\ disp.heap[disp.region_list[i]].start = LineOf(i).start
          /\ disp.heap[disp.region_list[i]].end = LineOf(i).end
          /\ disp.heap[disp.each_region[i]].start # LineOf(i).start
          /\ disp.heap[disp.args_list[i].region].end # LineOf(i).end
          /\ disp.args_list[i].region_string = Region__str__(LineOf(i))

(***************************************************************************)
(* insert_seq_index and insert_requality called on their own: on two runs  *)
(* of bases, one after the other, or on a list of qualities.  The runs are *)
(* every run of up to MaxRun bases and, of 30 to 33 bases, the runs that   *)
(* repeat one base and end in any base.                                    *)
(***************************************************************************)
MaxRun == 2
MaxQuals == 3

PackBases == {"A", "C", "G", "T"}
ShortRuns == UNION {[1..n -> PackBases] : n \in 1..MaxRun}
LongRuns ==
    {[i \in 1..n |-> IF i = n THEN c ELSE b] :
        n \in 30..33, b \in PackBases, c \in PackBases}
PackRuns == ShortRuns \cup LongRuns

\* the qualities a read can carry: 0, the qualities of the encoder runs and
\* 255, the largest value of the unsigned byte a quality is stored in
QualArgs == Quals \cup {0, 255}
QualLists == UNION {[1..n -> QualArgs] : n \in 1..MaxQuals}

InitFn ==
    /\ \/ \E a \in PackRuns, b \in PackRuns :
            fn = [name |-> "insert_seq_index", todo |-> <<a, b>>,
                  calls |-> << >>]
       \/ \E l \in QualLists :
            fn = [name |-> "insert_requality", todo |-> <<l>>,
                  calls |-> << >>]
    /\ rz = RzIdle
    /\ disp = DispIdle
    /\ region = E2ERegion
    /\ read = NoRead
    /\ source = << >>
    /\ results = << >>
    /\ ali_window = 0
    /\ ref_pos = 0
    /\ pc = "call"
    /\ n_pairs = 0
    /\ read_pos = 0
    /\ cur = NoPair
    /\ in_range = FALSE
    /\ insert_seq_list = << >>
    /\ insert_qual_list = << >>
    /\ range_one_hot = << >>
    /\ range_quality = << >>
    /\ row_idx = {}
    /\ raised = NoError
    /\ result = NoResult
    /\ reads_alignment = << >>
    /\ reads_quality = << >>
    /\ saved_alignment = NoFile
    /\ saved_quality = NoFile
    /\ done_marker = FALSE
    /\ overwrite = FALSE
    /\ sam_query_reader = "none"

\* region.py:235 in double precision: 1 - 10 ** (-q / 10) is exactly 1.0 when
\* 10^(-q/10) is at most 2^-54, half the gap between 1.0 and the double
\* below it, which is when q >= 163
Absorbed(q) == q >= 163

\* region.py:233-235: the factors of iq that are not exactly 1.0, as
\* probabilities of error
Factors(quals) ==
    LET kept == SelectSeq(quals, LAMBDA q : ~Absorbed(q))
    IN  [i \in 1..Len(kept) |-> FromPhred(kept[i])]

\* region.py:236: math.log(1 - iq, 10) raises ValueError when iq is exactly
\* 1.0, which is when every factor is
LogDomainError(quals) == \A i \in 1..Len(quals) : Absorbed(quals[i])

\* region.py:239-242: the next run is packed
CallInsertSeqIndex ==
    /\ fn.name = "insert_seq_index"
    /\ fn.todo # << >>
    /\ fn' = [fn EXCEPT
                 !.todo = Tail(@),
                 !.calls = Append(@, [arg |-> Head(fn.todo),
                                      value |->
                                          insert_seq_index(Head(fn.todo))])]
    /\ UNCHANGED <<encVars, drvVars, rz, disp>>

\* region.py:232-236: the qualities are merged
CallInsertRequality ==
    /\ fn.name = "insert_requality"
    /\ fn.todo # << >>
    /\ fn' = [fn EXCEPT
                 !.todo = Tail(@),
                 !.calls =
                     Append(@,
                         IF LogDomainError(Head(fn.todo))
                         THEN [arg |-> Head(fn.todo),
                               raised |-> "ValueError",
                               value |-> << >>]
                         ELSE [arg |-> Head(fn.todo),
                               raised |-> NoError,
                               value |->
                                   insert_requality(
                                       Factors(Head(fn.todo)))])]
    /\ UNCHANGED <<encVars, drvVars, rz, disp>>

NextFn ==
    \/ CallInsertSeqIndex
    \/ CallInsertRequality

SpecFn == InitFn /\ [][NextFn]_vars

\* the base-4 numeral of a run behind a leading 1, and whether it is at
\* most 2^63 - 1
Prefixed(run) == <<1>> \o [i \in 1..Len(run) |-> Channel(run[i])]
Fits(run) == ~NumLess(INT64_MAX, Prefixed(run))
PackCalls == IF fn.name = "insert_seq_index" THEN fn.calls ELSE << >>
QualCalls == IF fn.name = "insert_requality" THEN fn.calls ELSE << >>

\* C24: two different runs over A, C, G, T whose prefixed value is at most
\* 2^63 - 1 are packed to different integers, whether their lengths are
\* equal or not.
C24_PackInjective ==
    \A i, j \in 1..Len(PackCalls) :
        (/\ PackCalls[i].arg # PackCalls[j].arg
         /\ Fits(PackCalls[i].arg)
         /\ Fits(PackCalls[j].arg))
           => PackCalls[i].value # PackCalls[j].value

\* a run and the same run with one more A in front have been packed
C24_Witness ==
    /\ Len(PackCalls) = 2
    /\ PackCalls[1].arg = <<"A", "C">>
    /\ PackCalls[2].arg = <<"C">>
    /\ PackCalls[1].value # PackCalls[2].value

\* two different runs of 31 bases have been packed
LongRunsPackedApart ==
    /\ Len(PackCalls) = 2
    /\ Len(PackCalls[1].arg) = 31
    /\ Len(PackCalls[2].arg) = 31
    /\ PackCalls[1].arg # PackCalls[2].arg
    /\ PackCalls[1].value # PackCalls[2].value

\* C25: a run of n >= 1 bases is packed to 4^n + sum(digit_i * 4^(n-1-i)),
\* the numeral 1 digit_1 .. digit_n in base 4, when that is at most
\* 2^63 - 1, which is when n <= 31; a run of n >= 32 bases is packed to
\* 2^63 - 1; the packed value is at least 4 and at most 2^63 - 1.
C25_PackedValue ==
    \A i \in 1..Len(PackCalls) :
        LET run == PackCalls[i].arg
            value == PackCalls[i].value
        IN  /\ Fits(run) <=> Len(run) <= 31
            /\ Fits(run) => value = Prefixed(run)
            /\ Len(run) <= MaxRun => NumValue(value) = PackedRun(run)
            /\ Len(run) >= 32 => value = INT64_MAX
            /\ ~NumLess(value, <<1, 0>>)
            /\ ~NumLess(INT64_MAX, value)

\* a run of 31 bases packed below the ceiling and a run of 32 bases packed
\* to the ceiling
C25_Witness ==
    /\ Len(PackCalls) = 2
    /\ Len(PackCalls[1].arg) = 31
    /\ PackCalls[1].value = Prefixed(PackCalls[1].arg)
    /\ NumLess(PackCalls[1].value, INT64_MAX)
    /\ Len(PackCalls[2].arg) = 32
    /\ PackCalls[2].value = INT64_MAX

\* C26: insert_requality of a list of one quality q returns q.
C26_SingleQuality ==
    \A i \in 1..Len(QualCalls) :
        Len(QualCalls[i].arg) = 1
           => /\ QualCalls[i].raised = NoError
              /\ QualCalls[i].value = FromPhred(QualCalls[i].arg[1])

\* insert_requality of a list of one quality q below 163 returns q
LowSingleQuality ==
    \A i \in 1..Len(QualCalls) :
        (Len(QualCalls[i].arg) = 1 /\ ~Absorbed(QualCalls[i].arg[1]))
           => /\ QualCalls[i].raised = NoError
              /\ QualCalls[i].value = FromPhred(QualCalls[i].arg[1])

\* the quality 20 alone has been merged to 20
SingleQualityMerged ==
    /\ Len(QualCalls) = 1
    /\ QualCalls[1].arg = <<20>>
    /\ QualCalls[1].value = FromPhred(20)

\* the quality 255 alone has been merged and the call raised
HighSingleQualityRaised ==
    /\ Len(QualCalls) = 1
    /\ QualCalls[1].arg = <<255>>
    /\ QualCalls[1].raised = "ValueError"

\* the combined probability of error 1 - product(1 - p_i) of a list of
\* qualities as double precision has it, a quality of 163 or more adding
\* nothing; a quality x is held as the probability 10^(-x/10)
RECURSIVE Combined(_)
Combined(quals) ==
    IF quals = << >> THEN <<0, 1>>
    ELSE LET p == IF Absorbed(Head(quals)) THEN <<0, 1>>
                  ELSE FromPhred(Head(quals))
             rest == Combined(Tail(quals))
         IN  \* 1 - (1 - p)(1 - rest) = p + rest - p * rest
             Rat(p[1] * rest[2] + rest[1] * p[2] - p[1] * rest[1],
                 p[2] * rest[2])

\* C27 as stated: insert_requality returns -10 * log10(1 - combined).
C27_PhredOfComplement ==
    \A i \in 1..Len(QualCalls) :
        /\ QualCalls[i].raised = NoError
        /\ QualCalls[i].value =
               RatOneMinus(Combined(QualCalls[i].arg))

\* C27 as stated, for the lists that hold a quality below 163
LowPhredOfComplement ==
    \A i \in 1..Len(QualCalls) :
        QualCalls[i].raised = NoError
           => QualCalls[i].value =
                  RatOneMinus(Combined(QualCalls[i].arg))

\* C27: insert_requality returns -10 * log10(combined), the quality of the
\* combined probability of error, and raises ValueError when every quality
\* of the list is 163 or more, the combined probability being 0 then.
C27_PhredOfCombined ==
    \A i \in 1..Len(QualCalls) :
        IF Combined(QualCalls[i].arg) = <<0, 1>>
        THEN QualCalls[i].raised = "ValueError"
        ELSE /\ QualCalls[i].raised = NoError
             /\ QualCalls[i].value = Combined(QualCalls[i].arg)

\* the qualities 10, 20, 20 have been merged
C27_Witness ==
    /\ Len(QualCalls) = 1
    /\ QualCalls[1].arg = <<10, 20, 20>>
    /\ QualCalls[1].raised = NoError
    /\ QualCalls[1].value = Rat(11791, 100000)

(***************************************************************************)
(* The window of the scan.  The pairs of a read carry the reference        *)
(* positions reference_start, reference_start + 1, ... in order, so the    *)
(* pairs yielded so far hold position p exactly when                       *)
(* reference_start <= p < ref_pos.                                         *)
(***************************************************************************)
\* an iteration that did not leave the loop has run; cur' is its pair
PairScanned == pc = "scan" /\ pc' \in {"scan", "raised"}
\* the call has returned, by break or at the end of the pairs
ScanReturned == pc = "scan" /\ pc' = "returned"
StartSeen == read.reference_start <= region.start /\ ref_pos > region.start
EndSeen ==
    /\ ref_pos > read.reference_start
    /\ ref_pos - 1 >= region.end
OutputUnchanged ==
    /\ range_one_hot' = range_one_hot
    /\ range_quality' = range_quality
    /\ insert_seq_list' = insert_seq_list
    /\ insert_qual_list' = insert_qual_list
AllZero(one_hot) ==
    \A r \in DOMAIN one_hot : \A c \in 0..5 : one_hot[r][c] = Zero

\* C29: a pair that comes before the first pair at region.start, or that is
\* or comes after the first pair at or beyond region.end, changes neither
\* the alignment matrix nor the quality vector nor the pending run; the
\* call returns what the pairs before its exit left; and a read that has
\* yielded no pair at region.start returns the empty result.
C29_ScanWindow ==
    [][/\ PairScanned
          => ((~StartSeen' \/ EndSeen') => OutputUnchanged)
       /\ ScanReturned
          => /\ result' = ReturnValue(range_one_hot, range_quality)
             /\ ~StartSeen => result'.kind = "empty"]_vars

\* C29 for the regions that hold at least one position
NonEmptyRegionScanWindow ==
    [][region.start < region.end
       => /\ PairScanned
             => ((~StartSeen' \/ EndSeen') => OutputUnchanged)
          /\ ScanReturned
             => /\ result' = ReturnValue(range_one_hot, range_quality)
                /\ ~StartSeen => result'.kind = "empty"]_vars

\* a read that starts one position after region.start has matched a base
\* inside the region and nothing has been written
C29_Witness ==
    /\ pc = "scan"
    /\ read.reference_start = region.start + 1
    /\ region.end > region.start + 1
    /\ cur.ref_index = region.start + 1
    /\ cur.read_index # None
    /\ ~in_range
    /\ AllZero(range_one_hot)
    /\ insert_seq_list = << >>

\* the pair at region.start of a region without positions has put its base
\* in the pending run
EmptyRegionPairPending ==
    /\ region.start = region.end
    /\ cur.ref_index = region.start
    /\ in_range
    /\ insert_seq_list = <<cur.base>>

\* the pair at region.start of a region without positions has made the
\* call raise
EmptyRegionPairRaised ==
    /\ region.start = region.end
    /\ cur.ref_index = region.start
    /\ in_range
    /\ raised = "IndexError"

\* an iteration has handled, in range, a pair with a read position and no
\* reference position
InsertionScanned ==
    /\ PairScanned
    /\ in_range
    /\ cur'.ref_index = None
    /\ cur'.read_index # None

\* C30: an in-range pair without a reference position appends its base to
\* the pending bases and its quality to the pending qualities, which stay
\* of one length, and changes neither the alignment matrix nor the quality
\* vector.
C30_InsertionAppends ==
    [][InsertionScanned
       => /\ insert_seq_list' = Append(insert_seq_list, cur'.base)
          /\ insert_qual_list' =
                 Append(insert_qual_list, FromPhred(cur'.qual))
          /\ Len(insert_seq_list') = Len(insert_qual_list')
          /\ range_one_hot' = range_one_hot
          /\ range_quality' = range_quality]_vars

\* C30 for the insertions that are not the first base of the read
LaterInsertionAppends ==
    [][(InsertionScanned /\ cur'.read_index # 0)
       => /\ insert_seq_list' = Append(insert_seq_list, cur'.base)
          /\ insert_qual_list' =
                 Append(insert_qual_list, FromPhred(cur'.qual))
          /\ Len(insert_seq_list') = Len(insert_qual_list')
          /\ range_one_hot' = range_one_hot
          /\ range_quality' = range_quality]_vars

\* an in-range insertion of the read's first base has left the pending run
\* empty
FirstBaseInsertionDropped ==
    /\ pc = "scan"
    /\ region.start < region.end
    /\ in_range
    /\ cur.ref_index = None
    /\ cur.read_index = 0
    /\ insert_seq_list = << >>

\* a second base has been appended to the pending run
SecondInsertionAppended ==
    /\ pc = "scan"
    /\ in_range
    /\ cur.ref_index = None
    /\ cur.read_index # None
    /\ Len(insert_seq_list) = 2
    /\ Len(insert_qual_list) = 2

\* an iteration has changed channel 5 of some row
Channel5Changed ==
    \E r \in DOMAIN range_one_hot :
        range_one_hot'[r][5] # range_one_hot[r][5]

\* C34: channel 5 changes only in an iteration whose pair has a reference
\* position below region.end; and when the scan stops with a pending run,
\* the value returned is built from the matrix and the quality vector as
\* they stood, the run being in neither.
C34_PendingRunDropped ==
    [][/\ (PairScanned /\ Channel5Changed)
          => (cur'.ref_index # None /\ cur'.ref_index < region.end)
       /\ (ScanReturned /\ insert_seq_list # << >>)
          => result' = ReturnValue(range_one_hot, range_quality)]_vars

\* a base is pending after the last position of the region, a row is
\* written and channel 5 is 0 everywhere
C34_Witness ==
    /\ pc = "scan"
    /\ region.start < region.end
    /\ in_range
    /\ ref_pos = region.end
    /\ cur.ref_index = None
    /\ Len(insert_seq_list) = 1
    /\ ~AllZero(range_one_hot)
    /\ \A r \in DOMAIN range_one_hot : range_one_hot[r][5] = Zero

\* C35: at every point of the scan every entry of channels 0..4 is 0 or 1,
\* no row has two of channels 0..4 set, and every entry of channel 5 is 0
\* or at least 4.
C35_OneHotRows ==
    \A r \in DOMAIN range_one_hot :
        /\ \A c \in 0..4 : range_one_hot[r][c] \in {Zero, One}
        /\ Cardinality({c \in 0..4 : range_one_hot[r][c] # Zero}) <= 1
        /\ \/ range_one_hot[r][5] = Zero
           \/ ~NumLess(range_one_hot[r][5], <<1, 0>>)

\* a row holds a deletion and the code of a run, another row a base
C35_Witness ==
    /\ pc = "scan"
    /\ \E r, t \in DOMAIN range_one_hot :
          /\ r # t
          /\ range_one_hot[r][4] = One
          /\ range_one_hot[r][5] # Zero
          /\ \E c \in 0..3 : range_one_hot[t][c] = One

\* C36: no run whose prefixed value is at most 2^63 - 1 is packed to
\* 2^63 - 1.
C36_CeilingMeansSaturated ==
    \A i \in 1..Len(PackCalls) :
        Fits(PackCalls[i].arg) => PackCalls[i].value # INT64_MAX

\* the same for the runs of at most 30 bases
ShortRunsBelowCeiling ==
    \A i \in 1..Len(PackCalls) :
        Len(PackCalls[i].arg) <= 30 => PackCalls[i].value # INT64_MAX

\* the run of 31 T and the run of 32 T have been packed to the same value
CeilingWithoutOverflow ==
    /\ Len(PackCalls) = 2
    /\ PackCalls[1].arg = [i \in 1..31 |-> "T"]
    /\ PackCalls[2].arg = [i \in 1..32 |-> "T"]
    /\ PackCalls[1].value = Prefixed(PackCalls[1].arg)
    /\ PackCalls[1].value = INT64_MAX
    /\ PackCalls[2].value = INT64_MAX

\* a base that is none of A, C, G, T; an in-range pair with a read and a
\* reference position; an iteration that folds the pending run
BadBase(base) == base # NoBase /\ base \notin {"A", "C", "G", "T"}
InRangeMatch ==
    /\ PairScanned
    /\ in_range'
    /\ cur'.read_index # None
    /\ cur'.ref_index # None
Folding ==
    /\ PairScanned
    /\ in_range
    /\ insert_seq_list # << >>
    /\ Truthy(cur'.ref_index)
RunHasBadBase ==
    \E i \in 1..Len(insert_seq_list) : BadBase(insert_seq_list[i])
\* the driver has stopped at the encoder's error: nothing is saved, no
\* marker is made, nothing more is done
StoppedUnsaved ==
    /\ pc' = "raised"
          => /\ saved_alignment'.writes = 0
             /\ saved_quality'.writes = 0
             /\ done_marker' = done_marker
    /\ pc # "raised"

\* C37: an in-range match of a base that is none of A, C, G, T, and the
\* fold of a run that holds such a base, make get_read_alignment raise;
\* get_region_alignment then stops, having saved no array and made no
\* marker.
C37_BadBaseRaises ==
    [][/\ (InRangeMatch /\ BadBase(cur'.base)) => pc' = "raised"
       /\ (Folding /\ RunHasBadBase) => pc' = "raised"
       /\ StoppedUnsaved]_vars

\* the same for the matches whose base the code looks up: read and
\* reference position other than 0, and no run pending on the '+' strand
LookedUpBadBaseRaises ==
    [][/\ (/\ InRangeMatch
           /\ BadBase(cur'.base)
           /\ Truthy(cur'.read_index)
           /\ Truthy(cur'.ref_index)
           /\ (insert_seq_list = << >> \/ region.strand = "-"))
          => pc' = "raised"
       /\ (Folding /\ RunHasBadBase) => pc' = "raised"
       /\ StoppedUnsaved]_vars

\* the read's first base, an N, has matched region.start and the scan
\* goes on
FirstBaseNAccepted ==
    /\ pc = "scan"
    /\ region.start < region.end
    /\ in_range
    /\ cur.read_index = 0
    /\ cur.ref_index = region.start
    /\ cur.base = "N"
    /\ raised = NoError

\* an N has matched on the '+' strand behind a pending run and the scan
\* goes on
FoldedMatchNAccepted ==
    /\ pc = "scan"
    /\ region.strand = "+"
    /\ Truthy(cur.read_index)
    /\ Truthy(cur.ref_index)
    /\ cur.base = "N"
    /\ \E r \in DOMAIN range_one_hot : range_one_hot[r][5] # Zero
    /\ raised = NoError

\* an N in a folded run has stopped the driver
RunWithNRaised ==
    /\ pc = "raised"
    /\ raised = "KeyError"
    /\ \E i \in 1..Len(insert_seq_list) : insert_seq_list[i] = "N"
    /\ saved_alignment.writes = 0
    /\ sam_query_reader = "open"

\* the dispatch is over
DispatchOver == disp.phase \in {"returned", "raised"}

\* C38: a dispatch over an empty region list returns without error, having
\* started no driver and written no file; over a non-empty list the pool
\* has min(threads, number of regions) >= 1 workers and, when the dispatch
\* is over, the driver has been started for every region.
C38_EmptyListAndPoolSize ==
    /\ (DispatchOver /\ disp.bed = << >>)
          => /\ disp.phase = "returned"
             /\ disp.raised = NoError
             /\ disp.writers = {}
    /\ (disp.phase \in {"pool", "returned", "raised"} /\ disp.bed # << >>)
          => /\ disp.procs = Min(disp.threads, Len(disp.region_list))
             /\ disp.procs >= 1
    /\ (DispatchOver /\ disp.bed # << >>)
          => \A t \in Tasks : disp.status[t] # "pending"

\* the size of the pool over a non-empty list
NonEmptyListPoolSize ==
    (disp.phase \in {"pool", "returned", "raised"} /\ disp.bed # << >>)
       => /\ disp.procs = Min(disp.threads, Len(disp.region_list))
          /\ disp.procs >= 1
          /\ Len(disp.args_list) = Len(disp.bed)

\* the dispatch over an empty list has raised before any pool existed
EmptyListRaised ==
    /\ disp.phase = "raised"
    /\ disp.bed = << >>
    /\ disp.region_list = << >>
    /\ disp.procs = 0
    /\ disp.raised = "ValueError"
    /\ disp.writers = {}

====
